---------------------------- MODULE Spec2Model ----------------------------
(***************************************************************************)
(* A model of yocto_actor: addresses, the envelope trailer written by      *)
(* Outbox::send and removed by Envelope::open, the handler trait, the      *)
(* dispatcher and the run loop emitted by #[actor_message], and the relay  *)
(* scenario of the tests (a spawner and two workers, one thread each).     *)
(*                                                                         *)
(* Bytes are naturals in 0..255 and byte strings are sequences of them.    *)
(* A u64 is kept as its eight little-endian bytes, so that its width is    *)
(* the width the program has.                                              *)
(***************************************************************************)
EXTENDS Integers, Sequences, FiniteSets, TLC

\* src/src/lib.rs:7
ADDRESS_LENGTH == 32

\* ---- bounds of the model ------------------------------------------------
\* longest raw payload (a [u8; N] message) given to Outbox::send
MaxPayload == 2
\* most messages waiting in one transport pipe
MaxQueue == 2
\* longest buffer, beyond the two trailers, given to Envelope::from directly
MaxExtra == 2
\* most iterations of the run loop of the abstract actor
MaxCycles == 3
\* most sends, of both Outboxes together, in the mailbox specification
MaxSends == 3
\* most calls of Inbox::receive in the mailbox specification
MaxReceives == 3

None == [kind |-> "none"]

Panic(what) == [kind |-> "panic", what |-> what]

\* `let x = e; body`: body(x) with x bound to the value of e, which is
\* computed once however often the body uses it
Let(e, body(_)) == CHOOSE r \in {body(x) : x \in {e}} : TRUE

\* ---- byte strings -------------------------------------------------------

Zeros(n) == [i \in 1..n |-> 0]

Take(s, n) == SubSeq(s, 1, n)

Drop(s, n) == SubSeq(s, n + 1, Len(s))

RECURSIVE Digits(_)
\* the decimal digits of n as ASCII bytes, as "{}" formats an integer
Digits(n) == IF n < 10 THEN <<48 + n>> ELSE Digits(n \div 10) \o <<48 + (n % 10)>>

\* "inproc://"
InprocPrefix == <<105, 110, 112, 114, 111, 99, 58, 47, 47>>

\* "tcp://127.0.0.1:"
TcpPrefix == <<116, 99, 112, 58, 47, 47, 49, 50, 55, 46, 48, 46, 48, 46, 49, 58>>

\* ---- u64 ----------------------------------------------------------------

RECURSIVE LeBytes(_, _)
\* the k little-endian bytes of the natural n (n < 256^k)
LeBytes(n, k) == IF k = 0 THEN <<>> ELSE <<n % 256>> \o LeBytes(n \div 256, k - 1)

ToU64(n) == LeBytes(n, 8)

\* u64::MAX - n, for a small n < 256
U64MaxMinus(n) == <<255 - n, 255, 255, 255, 255, 255, 255, 255>>

RECURSIVE AddCarry(_, _, _)
\* byte-wise addition with carry of two equally long little-endian numbers;
\* the result has one more byte, the carry out
AddCarry(a, b, c) ==
    IF a = <<>> THEN <<c>>
    ELSE Let(Head(a) + Head(b) + c,
             LAMBDA s : <<s % 256>> \o AddCarry(Tail(a), Tail(b), s \div 256))

\* a faulty sum: the payload is not added
U64AddMutant(a, b, checks) == [kind |-> "ok", val |-> a]

\* `c_foo + self.payload` on u64: with overflow checks (a debug build) an
\* overflowing sum panics, without them (a release build) it wraps
U64Add(a, b, checks) ==
    Let(AddCarry(a, b, 0),
        LAMBDA wide :
            IF wide[9] # 0 /\ checks
            THEN Panic("attempt to add with overflow")
            ELSE [kind |-> "ok", val |-> Take(wide, 8)])

\* ---- Address ------------------------------------------------------------

\* write!(&mut conn_string[..], ...): the formatted bytes over a zeroed
\* buffer; the write fails when they do not fit
WriteConnString(content) ==
    IF Len(content) > ADDRESS_LENGTH
    THEN Panic("Cannot create address")
    ELSE [kind |-> "ok",
          address |-> [conn_string |-> content \o Zeros(ADDRESS_LENGTH - Len(content))]]

\* Address::new: `name` is what silly_names::make_name returned and `rnd`
\* what rand::random::<u64>() % 5000 returned
AddressNew(address_type, name, rnd) ==
    IF address_type = "Local"
    THEN WriteConnString(InprocPrefix \o name)
    ELSE WriteConnString(TcpPrefix \o Digits(5000 + rnd))

RECURSIVE ZeroPosition(_, _)
\* bytes.iter().position(|&v| v == 0).unwrap_or(bytes.len()), counted from 0
ZeroPosition(bytes, i) ==
    IF i > Len(bytes) THEN Len(bytes)
    ELSE IF bytes[i] = 0 THEN i - 1
    ELSE ZeroPosition(bytes, i + 1)

\* the connection string handed to bind and connect
truncate_byte_array_string(bytes) == Take(bytes, ZeroPosition(bytes, 1))

\* ---- identifiers and message types ----------------------------------------
\* An identifier is its ASCII bytes. A type declaration (the item an
\* attribute macro is applied to) is a record: `kind` is "enum", "struct" or
\* "fn"; an enum has `ident` and `variants`, each with `ident`, `shape`
\* ("Unit", "Unnamed" or "Named") and `fields`, each with `ident` (None in a
\* tuple variant) and `ty`.

\* "MessageA", "MessageB", "c_foo", "c_bar"
Id_MessageA == <<77, 101, 115, 115, 97, 103, 101, 65>>
Id_MessageB == <<77, 101, 115, 115, 97, 103, 101, 66>>
Id_c_foo == <<99, 95, 102, 111, 111>>
Id_c_bar == <<99, 95, 98, 97, 114>>
\* "FirstMessageType", "SecondMessageType"
Id_FirstMessageType ==
    <<70, 105, 114, 115, 116, 77, 101, 115, 115, 97, 103, 101, 84, 121, 112, 101>>
Id_SecondMessageType ==
    <<83, 101, 99, 111, 110, 100, 77, 101, 115, 115, 97, 103, 101, 84, 121, 112, 101>>

Field(ident, ty) == [ident |-> ident, ty |-> ty]

Variant(ident, shape, fields) == [ident |-> ident, shape |-> shape, fields |-> fields]

\* enum <ident> { MessageA, MessageB { c_foo: u64, c_bar: String } }
MessageTypeDecl(ident) ==
    [kind |-> "enum", ident |-> ident,
     variants |-> <<Variant(Id_MessageA, "Unit", <<>>),
                    Variant(Id_MessageB, "Named",
                            <<Field(Id_c_foo, "u64"), Field(Id_c_bar, "String")>>)>>]

FirstMessageType == MessageTypeDecl(Id_FirstMessageType)

SecondMessageType == MessageTypeDecl(Id_SecondMessageType)

\* A value of an enum: the variant (its index in the declaration and its
\* identifier) and, in declaration order, each field with its value.
EnumValue(decl, index, values) ==
    [type |-> "enum", index |-> index - 1,
     variant |-> decl.variants[index].ident,
     fields |-> [i \in 1..Len(values) |->
                    [ident |-> decl.variants[index].fields[i].ident,
                     ty |-> decl.variants[index].fields[i].ty,
                     value |-> values[i]]]]

MessageA == EnumValue(FirstMessageType, 1, <<>>)

MessageB(c_foo, c_bar) == EnumValue(FirstMessageType, 2, <<c_foo, c_bar>>)

\* ---- the codec (bincode: fixed-width little-endian integers) --------------
\* Besides enum values, a message may be the unit value (`type` "unit", no
\* bytes) or a [u8; N] (`type` "array", its N bytes).

\* one field: a u8 (kept as its one byte) is one byte, a u64 eight, a
\* String its length as a u64 and its bytes
EncodeValue(ty, value) ==
    CASE ty = "u8" -> value
      [] ty = "u64" -> value
      [] ty = "String" -> LeBytes(Len(value), 8) \o value

RECURSIVE EncodeFields(_)
EncodeFields(fields) ==
    IF fields = <<>> THEN <<>>
    ELSE EncodeValue(Head(fields).ty, Head(fields).value) \o EncodeFields(Tail(fields))

\* bincode::serialize: an enum value is its variant index as a u32, then
\* its fields in declaration order
Serialize(message) ==
    CASE message.type = "unit" -> <<>>
      [] message.type = "array" -> message.bytes
      [] message.type = "enum" -> LeBytes(message.index, 4) \o EncodeFields(message.fields)

\* the natural a little-endian byte string stands for
RECURSIVE LeValue(_)
LeValue(bytes) ==
    IF bytes = <<>> THEN 0 ELSE Head(bytes) + 256 * LeValue(Tail(bytes))

\* a little-endian integer of k bytes read from the front of `bytes`; one
\* of 65536 or more is beyond every length and index of the model
ReadLength(bytes, k) ==
    IF Len(bytes) < k THEN Panic("unexpected end of input")
    ELSE IF \E i \in 3..k : bytes[i] # 0 THEN Panic("value out of range")
    ELSE [kind |-> "ok", val |-> LeValue(Take(bytes, 2)), rest |-> Drop(bytes, k)]

\* one field read from the front of `bytes` (a String must be UTF-8; the
\* strings of the model are ASCII)
DecodeValue(ty, bytes) ==
    CASE ty = "u8" ->
            IF Len(bytes) < 1 THEN Panic("unexpected end of input")
            ELSE [kind |-> "ok", val |-> Take(bytes, 1), rest |-> Drop(bytes, 1)]
      [] ty = "u64" ->
            IF Len(bytes) < 8 THEN Panic("unexpected end of input")
            ELSE [kind |-> "ok", val |-> Take(bytes, 8), rest |-> Drop(bytes, 8)]
      [] ty = "String" ->
            Let(ReadLength(bytes, 8),
                LAMBDA n :
                    IF n.kind = "panic" THEN n
                    ELSE IF Len(n.rest) < n.val THEN Panic("unexpected end of input")
                    ELSE IF \E i \in 1..n.val : n.rest[i] > 127 THEN Panic("invalid utf-8")
                    ELSE [kind |-> "ok", val |-> Take(n.rest, n.val),
                          rest |-> Drop(n.rest, n.val)])

RECURSIVE DecodeFields(_, _, _)
DecodeFields(fields, bytes, values) ==
    IF fields = <<>> THEN [kind |-> "ok", values |-> values]
    ELSE Let(DecodeValue(Head(fields).ty, bytes),
             LAMBDA v :
                IF v.kind = "panic" THEN v
                ELSE Let(<<v.rest, Append(values, v.val)>>,
                         LAMBDA next : DecodeFields(Tail(fields), next[1], next[2])))

\* bincode::deserialize::<decl>(&bytes).expect(..): the variant index must
\* be one of the declaration and all the fields must be there; bytes after
\* them are ignored
DeserializeMessage(decl, bytes) ==
    Let(ReadLength(bytes, 4),
        LAMBDA index :
            IF index.kind = "panic" THEN Panic("cannot deserialize envelope")
            ELSE IF index.val >= Len(decl.variants) THEN Panic("cannot deserialize envelope")
            ELSE Let(DecodeFields(decl.variants[index.val + 1].fields, index.rest, <<>>),
                     LAMBDA values :
                        IF values.kind = "panic" THEN Panic("cannot deserialize envelope")
                        ELSE [kind |-> "ok",
                              message |-> EnumValue(decl, index.val + 1, values.values)]))

\* ---- Outbox::send and Envelope::open -------------------------------------

\* a faulty packer: destination before source
OutboxSendBytesMutant(ob, message) ==
    Serialize(message) \o ob.dest_address.conn_string
        \o ob.source_address.conn_string

\* the bytes Outbox::send gives to the socket
OutboxSendBytes(ob, message) ==
    Serialize(message) \o ob.source_address.conn_string
        \o ob.dest_address.conn_string

\* a - b on usize: with overflow checks an underflow panics; without them it
\* wraps, and `wrapped` says that the value stands for 2^64 + val
UsizeSub(a, b, checks) ==
    IF a >= b THEN [kind |-> "ok", wrapped |-> FALSE, val |-> a - b]
    ELSE IF checks THEN Panic("attempt to subtract with overflow")
    ELSE [kind |-> "ok", wrapped |-> TRUE, val |-> a - b]

\* a faulty drain: a saturating start, a short tail padded with zeros
DrainTailMutant(vec, checks) ==
    IF Len(vec) >= ADDRESS_LENGTH
    THEN [kind |-> "ok", rest |-> Take(vec, Len(vec) - ADDRESS_LENGTH),
          drained |-> Drop(vec, Len(vec) - ADDRESS_LENGTH)]
    ELSE [kind |-> "ok", rest |-> <<>>,
          drained |-> vec \o Zeros(ADDRESS_LENGTH - Len(vec))]

\* self.0.drain(self.0.len() - ADDRESS_LENGTH..) copied into a zeroed
\* [u8; ADDRESS_LENGTH]: drain panics when the range starts beyond the end
\* (a wrapped start is at least 2^64 - 32, beyond any Vec's length)
DrainTail(vec, checks) ==
    Let(UsizeSub(Len(vec), ADDRESS_LENGTH, checks),
        LAMBDA start :
            IF start.kind = "panic" THEN start
            ELSE IF start.wrapped \/ start.val > Len(vec)
                 THEN Panic("range start index out of range")
            ELSE [kind |-> "ok", rest |-> Take(vec, start.val),
                  drained |-> SubSeq(vec, start.val + 1, start.val + ADDRESS_LENGTH)])

\* a faulty open: source taken from the last 32 bytes
EnvelopeOpenMutant(bytes, checks) ==
    Let(DrainTail(bytes, checks),
        LAMBDA first :
            IF first.kind = "panic" THEN first
            ELSE Let(DrainTail(first.rest, checks),
                     LAMBDA second :
                        IF second.kind = "panic" THEN second
                        ELSE [kind |-> "ok",
                              dest |-> [conn_string |-> second.drained],
                              source |-> [conn_string |-> first.drained],
                              payload |-> second.rest]))

\* Envelope::open: the last 32 bytes are the destination, the 32 before
\* them the source, the rest the payload
EnvelopeOpen(bytes, checks) ==
    Let(DrainTail(bytes, checks),
        LAMBDA first :
            IF first.kind = "panic" THEN first
            ELSE Let(DrainTail(first.rest, checks),
                     LAMBDA second :
                        IF second.kind = "panic" THEN second
                        ELSE [kind |-> "ok",
                              dest |-> [conn_string |-> first.drained],
                              source |-> [conn_string |-> second.drained],
                              payload |-> second.rest]))

\* a faulty Outbox::new: the two addresses kept the wrong way round
OutboxNewSwapped(dest_address, source_address) ==
    [kind |-> "outbox",
     endpoint |-> truncate_byte_array_string(dest_address.conn_string),
     dest_address |-> source_address,
     source_address |-> dest_address]

\* Outbox::new keeps clones of both addresses; the socket connects to the
\* destination's connection string
OutboxNew(dest_address, source_address) ==
    [kind |-> "outbox",
     endpoint |-> truncate_byte_array_string(dest_address.conn_string),
     dest_address |-> dest_address,
     source_address |-> source_address]

\* ---- #[actor_message] ------------------------------------------------------

IsUpper(c) == c >= 65 /\ c <= 90

IsLower(c) == c >= 97 /\ c <= 122

IsAlphanumeric(c) == IsUpper(c) \/ IsLower(c) \/ (c >= 48 /\ c <= 57)

\* str::to_lowercase on ASCII
ToLowercase(word) == [i \in 1..Len(word) |-> IF IsUpper(word[i]) THEN word[i] + 32 ELSE word[i]]

RECURSIVE SplitWords(_, _, _)
\* s.split(|c| !c.is_alphanumeric()): the pieces between the separators
SplitWords(s, i, current) ==
    IF i > Len(s) THEN <<current>>
    ELSE IF IsAlphanumeric(s[i]) THEN SplitWords(s, i + 1, Append(current, s[i]))
    ELSE <<current>> \o SplitWords(s, i + 1, <<>>)

\* one word written to the output, after a '_' unless it is the first
WithWord(st, word) ==
    [out |-> st.out \o (IF st.first_word THEN <<>> ELSE <<95>>) \o ToLowercase(word),
     first_word |-> FALSE]

RECURSIVE SnakeChars(_, _, _, _, _)
\* heck's walk over one piece, from its character i: `init` is where the
\* current word starts and `mode` the case of the characters before i
\* ("Boundary", "Lowercase" or "Uppercase"); a word ends between a lower-case
\* and an upper-case character, and before the last of a run of upper-case
\* characters that a lower-case one follows
SnakeChars(word, i, init, mode, st) ==
    IF i > Len(word) THEN st
    ELSE IF i = Len(word) THEN WithWord(st, SubSeq(word, init, Len(word)))
    ELSE LET c == word[i]
             next == word[i + 1]
             next_mode == IF IsLower(c) THEN "Lowercase"
                          ELSE IF IsUpper(c) THEN "Uppercase" ELSE mode
         IN  IF next_mode = "Lowercase" /\ IsUpper(next)
             THEN SnakeChars(word, i + 1, i + 1, "Boundary",
                             WithWord(st, SubSeq(word, init, i)))
             ELSE IF mode = "Uppercase" /\ IsUpper(c) /\ IsLower(next)
             THEN SnakeChars(word, i + 1, i, "Boundary",
                             WithWord(st, SubSeq(word, init, i - 1)))
             ELSE SnakeChars(word, i + 1, init, next_mode, st)

RECURSIVE SnakeWords(_, _)
SnakeWords(words, st) ==
    IF words = <<>> THEN st
    ELSE SnakeWords(Tail(words), SnakeChars(Head(words), 1, 1, "Boundary", st))

\* heck::SnakeCase::to_snake_case
to_snake_case(s) ==
    SnakeWords(SplitWords(s, 1, <<>>), [out |-> <<>>, first_word |-> TRUE]).out

\* "handle_"
HandlePrefix == <<104, 97, 110, 100, 108, 101, 95>>

\* "Handler"
HandlerSuffix == <<72, 97, 110, 100, 108, 101, 114>>

\* a faulty name: no snake-case folding
handler_method_name_mutant(variant_name) == HandlePrefix \o variant_name

\* a faulty name: lower case without word boundaries
handler_method_name_lowercase(variant_name) == HandlePrefix \o ToLowercase(variant_name)

\* format!("handle_{}", &variant_name).to_snake_case()
handler_method_name(variant_name) == to_snake_case(HandlePrefix \o variant_name)

FieldIdents(fields) == [i \in 1..Len(fields) |-> fields[i].ident]

\* a faulty destructuring: the fields in reverse order
destructured_fields_mutant(fields) ==
    [i \in 1..Len(fields) |-> fields[Len(fields) + 1 - i].ident]

\* the field names of a named-field variant, in declaration order: used as
\* the pattern of the arm and as the arguments of the call
destructured_fields(fields) == FieldIdents(fields)

\* a faulty tuple-variant arm: the variant is skipped silently
UnnamedVariantMutant(st, enum_name, variant) == st

\* syn::Fields::Unnamed: unimplemented!("Tuple variants are not supported")
UnnamedVariant(st, enum_name, variant) == Panic("not implemented: Tuple variants are not supported")

\* what one variant adds to dispatch_arms and handler_prototypes
VariantArm(st, enum_name, variant) ==
    CASE variant.shape = "Unit" ->
            [kind |-> "ok",
             dispatch_arms |-> Append(st.dispatch_arms,
                [enum_name |-> enum_name, variant_name |-> variant.ident,
                 shape |-> "Unit", pattern |-> <<>>,
                 method |-> handler_method_name(variant.ident), arguments |-> <<>>]),
             handler_prototypes |-> Append(st.handler_prototypes,
                [method |-> handler_method_name(variant.ident), arguments |-> <<>>])]
      [] variant.shape = "Unnamed" -> UnnamedVariant(st, enum_name, variant)
      [] variant.shape = "Named" ->
            [kind |-> "ok",
             dispatch_arms |-> Append(st.dispatch_arms,
                [enum_name |-> enum_name, variant_name |-> variant.ident,
                 shape |-> "Named", pattern |-> destructured_fields(variant.fields),
                 method |-> handler_method_name(variant.ident),
                 arguments |-> destructured_fields(variant.fields)]),
             handler_prototypes |-> Append(st.handler_prototypes,
                [method |-> handler_method_name(variant.ident),
                 arguments |-> variant.fields])]

RECURSIVE VariantArms(_, _, _)
\* for variant_data in &enum_data.variants { .. }: a panic ends the macro
VariantArms(st, enum_name, variants) ==
    IF st.kind = "panic" \/ variants = <<>> THEN st
    ELSE VariantArms(VariantArm(st, enum_name, Head(variants)), enum_name, Tail(variants))

\* the attribute macro applied to `item`: a panic or a parse error fails the
\* build and emits nothing; otherwise the item itself and the handler trait
\* (pre_run, post_run, receive, run, dispatch_message, the handlers)
actor_message(item) ==
    IF item.kind \notin {"enum", "struct"}
    THEN Panic("expected one of: struct, enum, union")
    ELSE IF item.kind # "enum" THEN Panic("is not an enum")
    ELSE LET arms == VariantArms([kind |-> "ok", dispatch_arms |-> <<>>,
                                  handler_prototypes |-> <<>>],
                                 item.ident, item.variants)
         IN  IF arms.kind = "panic" THEN arms
             ELSE [kind |-> "ok",
                   input |-> item,
                   trait_name |-> item.ident \o HandlerSuffix,
                   dispatch_arms |-> arms.dispatch_arms,
                   handler_prototypes |-> arms.handler_prototypes]

\* "handle_message_a", "handle_message_b"
Id_handle_message_a ==
    <<104, 97, 110, 100, 108, 101, 95, 109, 101, 115, 115, 97, 103, 101, 95, 97>>
Id_handle_message_b ==
    <<104, 97, 110, 100, 108, 101, 95, 109, 101, 115, 115, 97, 103, 101, 95, 98>>

\* the hand-written trait FirstMessageTypeHandler of the tests
FirstMessageTypeHandler ==
    [kind |-> "ok",
     input |-> FirstMessageType,
     trait_name |-> Id_FirstMessageType \o HandlerSuffix,
     dispatch_arms |->
        <<[enum_name |-> Id_FirstMessageType, variant_name |-> Id_MessageA,
           shape |-> "Unit", pattern |-> <<>>,
           method |-> Id_handle_message_a, arguments |-> <<>>],
          [enum_name |-> Id_FirstMessageType, variant_name |-> Id_MessageB,
           shape |-> "Named", pattern |-> <<Id_c_foo, Id_c_bar>>,
           method |-> Id_handle_message_b, arguments |-> <<Id_c_foo, Id_c_bar>>]>>,
     handler_prototypes |->
        <<[method |-> Id_handle_message_a, arguments |-> <<>>],
          [method |-> Id_handle_message_b,
           arguments |-> <<Field(Id_c_foo, "u64"), Field(Id_c_bar, "String")>>]>>]

\* whether `match message { arm => .. }` takes this arm
ArmMatches(arm, message) == arm.variant_name = message.variant

\* the value the pattern binds to a field name
Binding(message, ident) ==
    LET i == CHOOSE j \in 1..Len(message.fields) : message.fields[j].ident = ident
    IN  message.fields[i].value

\* dispatch_message: the call made by the first arm that matches
dispatch_message(trait, message) ==
    LET i == CHOOSE j \in 1..Len(trait.dispatch_arms) :
                /\ ArmMatches(trait.dispatch_arms[j], message)
                /\ \A k \in 1..(j - 1) : ~ArmMatches(trait.dispatch_arms[k], message)
        arm == trait.dispatch_arms[i]
    IN  [method |-> arm.method,
         args |-> [k \in 1..Len(arm.arguments) |-> Binding(message, arm.arguments[k])]]

\* ---- state ----------------------------------------------------------------

Threads == {"main", "w1", "w2"}

\* the implementors of a handler trait: the two workers of the relay and,
\* in the loop specification, an actor whose handlers return anything
Actors == {"actor", "w1", "w2"}

VARIABLES
    overflow_checks, \* the build: TRUE when integer overflow panics (debug)
    outbox,          \* per thread, the Outbox it owns, or None
    new_args,        \* per thread, the arguments its Outbox::new was given
    pipe,            \* per thread, the messages its Outbox has sent that no
                     \* Inbox has received yet, oldest first: the bytes,
                     \* the endpoint they go to and the message they hold
    envelope,        \* the Envelope the main thread holds, or None
    opened,          \* what Envelope::open made of it, or None
    item,            \* the declaration #[actor_message] is applied to, or
                     \* the one a hand-written trait is for
    trait,           \* the handler trait: None before the macro has run,
                     \* then what the macro gave
    pc,              \* per actor, where its run loop is
    current,         \* per actor, the message receive returned, or None
    trace,           \* per actor, the calls its run loop has made, in order
    test,            \* the relay test that runs, or None
    address,         \* per thread, the Address made for it
    input,           \* the relay's numbers: c_foo of the first message and
                     \* the payload of each worker
    inbox,           \* per thread, the Inbox it owns, or None
    thread,          \* per thread, where its program is
    observed         \* what the spawner's Inbox has received, in order

envVars == <<outbox, new_args, pipe, envelope, opened>>

relayVars == <<test, address, input, inbox, thread, observed>>

loopVars == <<item, trait, pc, current, trace>>

vars == <<overflow_checks, outbox, new_args, pipe, envelope, opened,
          item, trait, pc, current, trace,
          test, address, input, inbox, thread, observed>>

\* the loop variables while no actor exists
NoActors ==
    /\ item = None
    /\ trait = None
    /\ pc = [a \in Actors |-> "NotStarted"]
    /\ current = [a \in Actors |-> None]
    /\ trace = [a \in Actors |-> <<>>]

\* the relay variables while no relay test runs
NoRelay ==
    /\ test = None
    /\ address = [t \in Threads |-> None]
    /\ input = None
    /\ inbox = [t \in Threads |-> None]
    /\ thread = [t \in Threads |-> "Unspawned"]
    /\ observed = <<>>

\* the mailbox variables while no mailbox exists
NoMailboxes ==
    /\ outbox = [t \in Threads |-> None]
    /\ new_args = [t \in Threads |-> None]
    /\ pipe = [t \in Threads |-> <<>>]
    /\ envelope = None
    /\ opened = None

\* ---- inputs of the envelope specification ---------------------------------

\* the bytes a raw payload is made of
PayloadBytes == {7, 255}

RECURSIVE SeqsUpTo(_, _)
\* the sequences over S of length at most n
SeqsUpTo(S, n) ==
    IF n = 0 THEN {<<>>}
    ELSE LET shorter == SeqsUpTo(S, n - 1)
         IN  shorter \cup {Append(s, x) : s \in {t \in shorter : Len(t) = n - 1}, x \in S}

\* what the envelope specification sends: (), every [u8; N] over
\* PayloadBytes up to MaxPayload, and the two variants of the tests' message
\* type
EnvMessages ==
    {[type |-> "unit"]}
        \cup {[type |-> "array", bytes |-> b] :
                b \in SeqsUpTo(PayloadBytes, MaxPayload) \ {<<>>}}
        \cup {MessageA, MessageB(ToU64(50), <<84, 97>>)}

\* the addresses of the envelope specification: one of each kind made by
\* Address::new, and one that no Address::new makes (an Address can also be
\* deserialized, or come out of Envelope::open)
EnvAddresses ==
    {AddressNew("Local", <<97, 98>>, 0).address,
     AddressNew("Remote", <<>>, 4999).address,
     [conn_string |-> [i \in 1..ADDRESS_LENGTH |-> 200 + i]]}

\* the buffers given to Envelope::from directly: every length from 0 to
\* two trailers and MaxExtra more, with position-dependent bytes
EnvBuffers ==
    {[i \in 1..n |-> (k * i) % 256] : n \in 0..(2 * ADDRESS_LENGTH + MaxExtra), k \in {1, 3}}

\* ---- the envelope specification -------------------------------------------

InitEnvelope ==
    /\ overflow_checks \in BOOLEAN
    /\ NoMailboxes
    /\ NoActors
    /\ NoRelay

\* Outbox::new(ctx, dest, source) on the main thread
EnvOutboxNew ==
    /\ outbox["main"] = None
    /\ \E dest \in EnvAddresses, source \in EnvAddresses :
        /\ outbox' = [outbox EXCEPT !["main"] = OutboxNew(dest, source)]
        /\ new_args' = [new_args EXCEPT !["main"] = [dest |-> dest, source |-> source]]
    /\ UNCHANGED <<overflow_checks, pipe, envelope, opened, loopVars, relayVars>>

\* outbox.send(&message): one transport message (the sends come before the
\* first receive)
EnvOutboxSend ==
    /\ outbox["main"] # None
    /\ envelope = None /\ opened = None
    /\ Len(pipe["main"]) < MaxQueue
    /\ \E message \in EnvMessages :
        pipe' = [pipe EXCEPT !["main"] =
                    Append(@, [bytes |-> OutboxSendBytes(outbox["main"], message),
                               endpoint |-> outbox["main"].endpoint,
                               message |-> message])]
    /\ UNCHANGED <<overflow_checks, outbox, new_args, envelope, opened, loopVars, relayVars>>

\* Envelope::from(inbox.receive(..).expect(..)) on the receiving side
EnvInboxReceive ==
    /\ pipe["main"] # <<>>
    /\ envelope = None
    /\ envelope' = [kind |-> "envelope", bytes |-> Head(pipe["main"]).bytes,
                    sent |-> [kind |-> "sent", message |-> Head(pipe["main"]).message]]
    /\ pipe' = [pipe EXCEPT !["main"] = Tail(@)]
    /\ opened' = None
    /\ UNCHANGED <<overflow_checks, outbox, new_args, loopVars, relayVars>>

\* Envelope::from(bytes) of any buffer, while nothing is in flight
EnvEnvelopeFrom ==
    /\ envelope = None
    /\ pipe["main"] = <<>>
    /\ \E bytes \in EnvBuffers :
        envelope' = [kind |-> "envelope", bytes |-> bytes, sent |-> None]
    /\ opened' = None
    /\ UNCHANGED <<overflow_checks, outbox, new_args, pipe, loopVars, relayVars>>

\* envelope.open(), which consumes the envelope
EnvEnvelopeOpen ==
    /\ envelope # None
    /\ opened' = [kind |-> "opened", of |-> envelope,
                  result |-> EnvelopeOpen(envelope.bytes, overflow_checks)]
    /\ envelope' = None
    /\ UNCHANGED <<overflow_checks, outbox, new_args, pipe, loopVars, relayVars>>

NextEnvelope ==
    \/ EnvOutboxNew
    \/ EnvOutboxSend
    \/ EnvInboxReceive
    \/ EnvEnvelopeFrom
    \/ EnvEnvelopeOpen

SpecEnvelope == InitEnvelope /\ [][NextEnvelope]_vars

\* C1. Envelope round trip: opening the buffer that Outbox::send made of a
\* payload P, a source S and a destination D gives back exactly (D, S, P).
C1_EnvelopeRoundTrip ==
    (opened # None /\ opened.of.sent # None) =>
        /\ opened.result.kind = "ok"
        /\ opened.result.dest = new_args["main"].dest
        /\ opened.result.source = new_args["main"].source
        /\ opened.result.payload = Serialize(opened.of.sent.message)

\* a sent envelope with an empty payload and two different addresses was opened
C1_Witness ==
    /\ opened # None /\ opened.of.sent # None
    /\ opened.result.kind = "ok"
    /\ opened.result.payload = <<>>
    /\ opened.result.dest # opened.result.source

\* C2. Envelope underflow: opening a buffer of fewer than 64 bytes ends in
\* the error outcome and never gives a (destination, source, payload) triple.
C2_EnvelopeUnderflow ==
    (opened # None /\ Len(opened.of.bytes) < 2 * ADDRESS_LENGTH) =>
        opened.result.kind = "panic"

\* a buffer of 32..63 bytes, whose first trailer can be removed, was opened
\* in a build without overflow checks
C2_Witness ==
    /\ opened # None
    /\ Len(opened.of.bytes) >= ADDRESS_LENGTH
    /\ Len(opened.of.bytes) < 2 * ADDRESS_LENGTH
    /\ ~overflow_checks
    /\ opened.result.kind = "panic"

\* C3. Wire layout: every buffer Outbox::send gave to the transport is the
\* serialized message, then the source, then the destination given to
\* Outbox::new; it is 64 bytes longer than the payload and ends with the
\* destination.
C3_WireLayout ==
    \A i \in 1..Len(pipe["main"]) :
        LET m == pipe["main"][i]
            P == Serialize(m.message)
        IN  /\ m.bytes = P \o new_args["main"].source.conn_string
                           \o new_args["main"].dest.conn_string
            /\ Len(m.bytes) = Len(P) + 64
            /\ Drop(m.bytes, Len(m.bytes) - 32) = new_args["main"].dest.conn_string

\* two sends of one outbox, with different source and destination, are waiting
C3_Witness ==
    /\ Len(pipe["main"]) >= 2
    /\ new_args["main"].dest # new_args["main"].source
    /\ pipe["main"][1].message # pipe["main"][2].message

\* ---- the run loop -----------------------------------------------------------
\* pc of an actor: "NotStarted" before run is called; "Idle" at the top of
\* the loop; "Receiving" once pre_run has returned and receive is called;
\* "Dispatching" once receive has returned a message; "PostRun" once
\* dispatch_message has returned false; "Terminated" once run has returned;
\* "Panicked" once a call has panicked.

\* faulty loops: one that breaks whatever the handler returned, one that
\* never breaks, one that calls pre_run before the loop only
RunNextAlwaysBreaks(should_terminate) == "Terminated"

RunNextNeverBreaks(should_terminate) == "PostRun"

\* if self.dispatch_message(message).into() { break; } self.post_run();
RunNext(should_terminate) == IF should_terminate THEN "Terminated" ELSE "PostRun"

RunLoopBackSkipsPreRun == "Receiving"

\* the end of the loop body: back to the top, where pre_run is called
RunLoopBack == "Idle"

Event(name) == [ev |-> name]

\* a faulty run: one that starts again once it has returned
RunStartsAgain(a) ==
    /\ pc[a] \in {"NotStarted", "Terminated"}
    /\ trait # None /\ trait.kind = "ok"
    /\ a \in Threads => thread[a] = "Running"
    /\ pc' = [pc EXCEPT ![a] = "Idle"]
    /\ UNCHANGED <<overflow_checks, envVars, item, trait, current, trace, relayVars>>

\* run() is called on an actor whose trait exists: on the abstract actor,
\* and on a worker once it is constructed
Run(a) ==
    /\ pc[a] = "NotStarted"
    /\ trait # None /\ trait.kind = "ok"
    /\ a \in Threads => thread[a] = "Running"
    /\ pc' = [pc EXCEPT ![a] = "Idle"]
    /\ UNCHANGED <<overflow_checks, envVars, item, trait, current, trace, relayVars>>

\* self.pre_run()
PreRun(a) ==
    /\ pc[a] = "Idle"
    /\ Len(SelectSeq(trace[a], LAMBDA e : e.ev = "pre_run")) < MaxCycles
    /\ trace' = [trace EXCEPT ![a] = Append(@, Event("pre_run"))]
    /\ pc' = [pc EXCEPT ![a] = "Receiving"]
    /\ UNCHANGED <<overflow_checks, envVars, item, trait, current, relayVars>>

\* self.post_run()
PostRun(a) ==
    /\ pc[a] = "PostRun"
    /\ trace' = [trace EXCEPT ![a] = Append(@, Event("post_run"))]
    /\ pc' = [pc EXCEPT ![a] = RunLoopBack]
    /\ UNCHANGED <<overflow_checks, envVars, item, trait, current, relayVars>>

\* the calls of one dispatch_message(message) whose handler returns `ret`
DispatchEvents(message, ret) ==
    LET call == dispatch_message(trait, message)
    IN  <<[ev |-> "dispatch_message", message |-> message],
          [ev |-> "handler", method |-> call.method, args |-> call.args, ret |-> ret]>>

\* ---- the loop specification: an actor with arbitrary handlers --------------

\* "A", "B", "C", "x", "y", "Message"
Id_A == <<65>>
Id_B == <<66>>
Id_C == <<67>>
Id_x == <<120>>
Id_y == <<121>>
Id_Message == <<77, 101, 115, 115, 97, 103, 101>>

VariantA == Variant(Id_A, "Unit", <<>>)

VariantB == Variant(Id_B, "Unnamed", <<Field(None, "u8"), Field(None, "String")>>)

VariantC == Variant(Id_C, "Named", <<Field(Id_x, "u64"), Field(Id_y, "String")>>)

\* enum Message { A, B(u8, String), C { x: u64, y: String } }
ItemABC == [kind |-> "enum", ident |-> Id_Message, variants |-> <<VariantA, VariantB, VariantC>>]

\* enum Message { A, C { x: u64, y: String } }
ItemAC == [kind |-> "enum", ident |-> Id_Message, variants |-> <<VariantA, VariantC>>]

\* enum Message { C { x: u64, y: String }, A, B(u8, String) }
ItemCAB == [kind |-> "enum", ident |-> Id_Message, variants |-> <<VariantC, VariantA, VariantB>>]

\* struct Message { .. } and fn message() { .. }
ItemStruct == [kind |-> "struct", ident |-> Id_Message]
ItemFn == [kind |-> "fn", ident |-> Id_Message]

\* the items the macro is applied to
DerivedItems == {SecondMessageType, ItemABC, ItemAC, ItemCAB, ItemStruct, ItemFn}

\* the values a field of the abstract actor's messages takes: 7 / 9 and 50 /
\* "x" and "z"
FieldValues(ty) ==
    CASE ty = "u8" -> {<<7>>}
      [] ty = "u64" -> {ToU64(9), ToU64(50)}
      [] ty = "String" -> {<<120>>, <<122>>}

AllFieldValues == FieldValues("u8") \cup FieldValues("u64") \cup FieldValues("String")

\* every value of the enum `decl` over FieldValues
MessagesOf(decl) ==
    UNION {
        {EnumValue(decl, i, values) :
            values \in {v \in [1..Len(decl.variants[i].fields) -> AllFieldValues] :
                          \A k \in 1..Len(decl.variants[i].fields) :
                              v[k] \in FieldValues(decl.variants[i].fields[k].ty)}}
        : i \in 1..Len(decl.variants)}

InitLoop ==
    /\ overflow_checks \in BOOLEAN
    /\ NoMailboxes
    /\ NoRelay
    /\ \/ item \in DerivedItems /\ trait = None
       \/ item = FirstMessageType /\ trait = FirstMessageTypeHandler
    /\ pc = [a \in Actors |-> "NotStarted"]
    /\ current = [a \in Actors |-> None]
    /\ trace = [a \in Actors |-> <<>>]

\* the build expands #[actor_message] on the item
Expand ==
    /\ trait = None
    /\ trait' = actor_message(item)
    /\ UNCHANGED <<overflow_checks, envVars, item, pc, current, trace, relayVars>>

\* self.receive() of the abstract actor returns any message of its type
ActorReceive ==
    /\ pc["actor"] = "Receiving"
    /\ \E message \in MessagesOf(trait.input) :
        /\ current' = [current EXCEPT !["actor"] = message]
        /\ trace' = [trace EXCEPT !["actor"] =
                        Append(@, [ev |-> "receive", message |-> message])]
    /\ pc' = [pc EXCEPT !["actor"] = "Dispatching"]
    /\ UNCHANGED <<overflow_checks, envVars, item, trait, relayVars>>

\* self.dispatch_message(message) of the abstract actor: the handler called
\* returns either value
ActorDispatch ==
    /\ pc["actor"] = "Dispatching"
    /\ \E ret \in BOOLEAN :
        /\ trace' = [trace EXCEPT !["actor"] = @ \o DispatchEvents(current["actor"], ret)]
        /\ pc' = [pc EXCEPT !["actor"] = RunNext(ret)]
    /\ current' = [current EXCEPT !["actor"] = None]
    /\ UNCHANGED <<overflow_checks, envVars, item, trait, relayVars>>

NextLoop ==
    \/ Expand
    \/ Run("actor")
    \/ PreRun("actor")
    \/ ActorReceive
    \/ ActorDispatch
    \/ PostRun("actor")

SpecLoop == InitLoop /\ [][NextLoop]_vars

\* the number of events of a kind in the abstract actor's trace
Count(name) == Len(SelectSeq(trace["actor"], LAMBDA e : e.ev = name))

\* the number of handler calls that returned `ret`
Returned(ret) ==
    Len(SelectSeq(trace["actor"], LAMBDA e : e.ev = "handler" /\ e.ret = ret))

LastEvent == trace["actor"][Len(trace["actor"])]

\* C4. Termination of the control loop: when the handlers return false k
\* times and then true, run makes exactly k + 1 receive/dispatch cycles and
\* k post_run calls, and returns without a post_run after the last cycle;
\* while no handler has returned true, run has not returned.
C4_Termination ==
    /\ Returned(TRUE) <= 1
    /\ Count("post_run") <= Returned(FALSE)
    /\ (pc["actor"] = "Terminated") <=> (Returned(TRUE) = 1)
    /\ pc["actor"] = "Terminated" =>
        /\ Count("receive") = Returned(FALSE) + 1
        /\ Count("dispatch_message") = Returned(FALSE) + 1
        /\ Count("post_run") = Returned(FALSE)
        /\ LastEvent.ev = "handler" /\ LastEvent.ret = TRUE

\* the handlers returned false, then true: two cycles and one post_run
C4_Witness ==
    /\ pc["actor"] = "Terminated"
    /\ Returned(FALSE) = 1
    /\ Count("receive") = 2
    /\ Count("post_run") = 1

\* C5. The actor's state machine: it starts Idle and moves Idle ->
\* Receiving -> Dispatching; from Dispatching it goes to Terminated exactly
\* when the handler just called returned true, and otherwise to post_run and
\* from there back to Idle; Terminated is entered from Dispatching only.
C5_Step ==
    LET from == pc["actor"]
        to == pc'["actor"]
        last == trace'["actor"][Len(trace'["actor"])]
    IN  from # to =>
            \/ from = "NotStarted" /\ to = "Idle"
            \/ from = "Idle" /\ to = "Receiving"
            \/ from = "Receiving" /\ to = "Dispatching"
            \/ from = "Dispatching" /\ to = "Terminated"
                /\ last.ev = "handler" /\ last.ret = TRUE
            \/ from = "Dispatching" /\ to = "PostRun"
                /\ last.ev = "handler" /\ last.ret = FALSE
            \/ from = "PostRun" /\ to = "Idle" /\ last.ev = "post_run"

C5_StateMachine == [][C5_Step]_vars

\* the actor went back to Idle after a handler returned false
C5_Witness ==
    /\ pc["actor"] = "Idle"
    /\ Returned(FALSE) >= 1
    /\ LastEvent.ev = "post_run"

\* C6. Order of the hooks: every receive directly follows a pre_run, every
\* dispatch directly follows a receive, a post_run directly follows a
\* handler that returned false, and a pre_run is the first call or directly
\* follows a post_run; there are as many pre_run calls as receive calls
\* started.
C6_HookOrder ==
    LET t == trace["actor"]
    IN  /\ \A i \in 1..Len(t) :
            /\ t[i].ev = "pre_run" => (i = 1 \/ t[i - 1].ev = "post_run")
            /\ t[i].ev = "receive" => (i > 1 /\ t[i - 1].ev = "pre_run")
            /\ t[i].ev = "dispatch_message" => (i > 1 /\ t[i - 1].ev = "receive")
            /\ t[i].ev = "handler" => (i > 1 /\ t[i - 1].ev = "dispatch_message")
            /\ t[i].ev = "post_run" =>
                (i > 1 /\ t[i - 1].ev = "handler" /\ t[i - 1].ret = FALSE)
        /\ Count("pre_run") = Count("receive") + (IF pc["actor"] = "Receiving" THEN 1 ELSE 0)

\* the second iteration has called pre_run and is in receive
C6_Witness ==
    /\ pc["actor"] = "Receiving"
    /\ Count("pre_run") = 2
    /\ Count("post_run") = 1

\* the values of a message's fields, in the order of the declaration
DeclaredValues(message) ==
    LET decl == item.variants[message.index + 1]
    IN  [k \in 1..Len(decl.fields) |-> Binding(message, decl.fields[k].ident)]

\* C7. Dispatch routes each message to exactly one handler: every
\* dispatch_message(m) is followed by one handler call, the one named after
\* m's variant, with no arguments for a unit variant and with the values of
\* all the fields in declaration order for a named-field variant; there are
\* as many handler calls as dispatches, and the loop ends exactly when the
\* handler's value is true.
C7_Dispatch ==
    LET t == trace["actor"]
    IN  /\ Count("handler") = Count("dispatch_message")
        /\ \A i \in 1..Len(t) :
            t[i].ev = "dispatch_message" =>
                /\ i < Len(t)
                /\ t[i + 1].ev = "handler"
                /\ t[i + 1].method = HandlePrefix \o to_snake_case(t[i].message.variant)
                /\ t[i + 1].args = DeclaredValues(t[i].message)
                /\ i + 1 = Len(t) => (t[i + 1].ret <=> pc["actor"] = "Terminated")

\* a derived trait dispatched a named-field message whose fields differ
C7_Witness ==
    /\ item = SecondMessageType
    /\ Count("handler") >= 1
    /\ LastEvent.ev = "handler"
    /\ LastEvent.method = Id_handle_message_b
    /\ LastEvent.args = <<ToU64(50), <<120>>>>

\* "handle_a", "handle_b", "handle_c"
Id_handle_a == <<104, 97, 110, 100, 108, 101, 95, 97>>
Id_handle_b == <<104, 97, 110, 100, 108, 101, 95, 98>>
Id_handle_c == <<104, 97, 110, 100, 108, 101, 95, 99>>

\* the three instances of the claim: A, B(7, "x") and C { x: 9, y: "z" }
InstanceA == EnumValue(ItemABC, 1, <<>>)
InstanceB == EnumValue(ItemABC, 2, <<<<7>>, <<120>>>>)
InstanceC == EnumValue(ItemABC, 3, <<ToU64(9), <<122>>>>)

\* C8, as claimed. For the type with the variants A, B(u8, String) and
\* C { x, y } the macro gives a dispatcher that routes A to handle_a(),
\* B(7, "x") to handle_b(7, "x") and C { x: 9, y: "z" } to handle_c(9, "z").
C8_AllShapesRouted ==
    (item = ItemABC /\ trait # None) =>
        /\ trait.kind = "ok"
        /\ dispatch_message(trait, InstanceA) = [method |-> Id_handle_a, args |-> <<>>]
        /\ dispatch_message(trait, InstanceB) =
                [method |-> Id_handle_b, args |-> <<<<7>>, <<120>>>>]
        /\ dispatch_message(trait, InstanceC) =
                [method |-> Id_handle_c, args |-> <<ToU64(9), <<122>>>>]

\* C8, amended. For the type with the variants A and C { x, y } the
\* dispatcher makes, for every message, one handler call: handle_a() for A
\* and handle_c(x, y) for C { x, y }, so handle_c(9, "z") for
\* C { x: 9, y: "z" }; for the type that also has B(u8, String) the macro
\* fails and there is no dispatcher.
C8_UnitAndNamedRouted ==
    /\ (item \in {ItemABC, ItemCAB} /\ trait # None) =>
            (trait.kind = "panic" /\ pc["actor"] = "NotStarted")
    /\ (item = ItemAC /\ trait # None) =>
        /\ trait.kind = "ok"
        /\ \A i \in 1..Len(trace["actor"]) :
            LET e == trace["actor"][i]
            IN  e.ev = "dispatch_message" =>
                    LET h == trace["actor"][i + 1]
                    IN  /\ h.ev = "handler"
                        /\ e.message.variant = Id_A =>
                                (h.method = Id_handle_a /\ h.args = <<>>)
                        /\ e.message.variant = Id_C =>
                                /\ h.method = Id_handle_c
                                /\ h.args = <<e.message.fields[1].value,
                                              e.message.fields[2].value>>
                        /\ e.message.variant \in {Id_A, Id_C}
                        /\ h.method \in {Id_handle_a, Id_handle_c}

\* C { x: 9, y: "z" } was dispatched to handle_c(9, "z")
C8_Witness ==
    /\ item = ItemAC
    /\ Len(trace["actor"]) >= 2
    /\ LastEvent.ev = "handler"
    /\ LastEvent.method = Id_handle_c
    /\ LastEvent.args = <<ToU64(9), <<122>>>>
    /\ trace["actor"][Len(trace["actor"]) - 1].message =
            EnumValue(ItemAC, 2, <<ToU64(9), <<122>>>>)

HasTupleVariant(decl) == \E i \in 1..Len(decl.variants) : decl.variants[i].shape = "Unnamed"

\* C9. Unsupported inputs fail the build: for an item that is not an enum,
\* or an enum with a tuple variant, the macro ends in an error, emits no
\* trait, and no run loop ever starts; and a trait that is emitted has one
\* arm and one handler per variant, in the order of the declaration.
C9_UnsupportedFails ==
    trait # None =>
        /\ (item.kind # "enum" \/ HasTupleVariant(item)) =>
            /\ trait.kind = "panic"
            /\ pc["actor"] = "NotStarted"
            /\ trace["actor"] = <<>>
        /\ trait.kind = "ok" =>
            /\ Len(trait.dispatch_arms) = Len(item.variants)
            /\ Len(trait.handler_prototypes) = Len(item.variants)
            /\ \A i \in 1..Len(item.variants) :
                /\ trait.dispatch_arms[i].variant_name = item.variants[i].ident
                /\ trait.handler_prototypes[i].method = trait.dispatch_arms[i].method

\* the macro has failed on an enum whose tuple variant comes after a
\* supported one
C9_Witness ==
    /\ item = ItemABC
    /\ trait # None
    /\ trait.kind = "panic"

\* ---- the relay tests ---------------------------------------------------------
\* thread of the spawner ("main"): "BindInbox", "SpawnFirst", "SpawnSecond",
\* "NewOutbox", "SendB", "ReceiveB", "SendA", "ReceiveA", "JoinFirst",
\* "JoinSecond", "Done". thread of a worker: "Unspawned", "NewInbox",
\* "NewOutbox", "Running" (constructed; pc says where its run loop is),
\* "Finished". Any thread: "Panicked".

Workers == {"w1", "w2"}

\* the thread whose address a thread's Outbox is connected to: the spawner
\* sends to the first worker, the first worker to the second, the second to
\* the spawner
NextStage(t) ==
    CASE t = "main" -> "w1"
      [] t = "w1" -> "w2"
      [] t = "w2" -> "main"

\* "Ta-da-da" and "String payload"
TaDaDa == <<84, 97, 45, 100, 97, 45, 100, 97>>
StringPayload == <<83, 116, 114, 105, 110, 103, 32, 112, 97, 121, 108, 111, 97, 100>>

\* the tests: the workers' trait and the kind of the addresses
RelayTests ==
    {[name |-> "run_handmade_worker", derived |-> FALSE, address_type |-> "Local"],
     [name |-> "run_derived_worker_local", derived |-> TRUE, address_type |-> "Local"],
     [name |-> "run_derived_worker_remote", derived |-> TRUE, address_type |-> "Remote"]}

\* what the random sources of Address::new may return: a name ("a", "b",
\* "c") from silly_names::make_name and a number from rand::random() % 5000
AddressDraws ==
    {[name |-> <<97>>, rnd |-> 0], [name |-> <<98>>, rnd |-> 1], [name |-> <<99>>, rnd |-> 4999]}

\* c_foo of the first message and the workers' payloads: the tests' 50, 42
\* and 43; numbers whose sum is u64::MAX; numbers whose sum overflows
RelayInputs ==
    {[v |-> ToU64(50), w1 |-> ToU64(42), w2 |-> ToU64(43)],
     [v |-> U64MaxMinus(85), w1 |-> ToU64(42), w2 |-> ToU64(43)],
     [v |-> U64MaxMinus(84), w1 |-> ToU64(42), w2 |-> ToU64(43)]}

\* the endpoints some Inbox is bound to
Bound == {inbox[t].endpoint : t \in {u \in Threads : inbox[u] # None}}

\* Inbox::new: a PULL socket bound to the address's connection string; the
\* bind fails on an endpoint that is in use
InboxNew(addr) ==
    LET endpoint == truncate_byte_array_string(addr.conn_string)
    IN  IF endpoint \in Bound THEN Panic("Cannot connect control socket")
        ELSE [kind |-> "inbox", endpoint |-> endpoint]

\* what a thread's receive(ShouldBlock(true)), Envelope::open and
\* bincode::deserialize make of the bytes the socket gave
OpenAndDeserialize(decl, bytes) ==
    Let(EnvelopeOpen(bytes, overflow_checks),
        LAMBDA triple :
            IF triple.kind = "panic" THEN triple
            ELSE Let(triple.payload, LAMBDA message_bytes :
                        DeserializeMessage(decl, message_bytes)))

\* the threads whose oldest unreceived message goes to the Inbox of t
SendersTo(t) ==
    {u \in Threads : pipe[u] # <<>> /\ inbox[t] # None
                        /\ Head(pipe[u]).endpoint = inbox[t].endpoint}

\* outbox.send(&message) by thread t
Sent(t, message) ==
    [pipe EXCEPT ![t] = Append(@, [bytes |-> OutboxSendBytes(outbox[t], message),
                                   endpoint |-> outbox[t].endpoint,
                                   message |-> message])]

\* a panic that aborts the process: every thread ends
UnwoundAborts(t) ==
    /\ thread' = [u \in Threads |-> "Panicked"]
    /\ inbox' = [u \in Threads |-> None]

\* a panic unwinds the thread: its Inbox is dropped
Unwound(t) ==
    /\ thread' = [thread EXCEPT ![t] = "Panicked"]
    /\ inbox' = [inbox EXCEPT ![t] = None]

InitRelay ==
    /\ overflow_checks \in BOOLEAN
    /\ envelope = None
    /\ opened = None
    /\ outbox = [t \in Threads |-> None]
    /\ new_args = [t \in Threads |-> None]
    /\ pipe = [t \in Threads |-> <<>>]
    /\ test \in RelayTests
    /\ item = IF test.derived THEN SecondMessageType ELSE FirstMessageType
    /\ trait = IF test.derived THEN actor_message(SecondMessageType)
               ELSE FirstMessageTypeHandler
    /\ pc = [a \in Actors |-> "NotStarted"]
    /\ current = [a \in Actors |-> None]
    /\ trace = [a \in Actors |-> <<>>]
    /\ \E draw \in [Threads -> AddressDraws] :
        address = [t \in Threads |->
                    AddressNew(test.address_type, draw[t].name, draw[t].rnd).address]
    /\ input \in RelayInputs
    /\ inbox = [t \in Threads |-> None]
    /\ thread = [t \in Threads |-> IF t = "main" THEN "BindInbox" ELSE "Unspawned"]
    /\ observed = <<>>

\* Inbox::new(ctx, &address) by the spawner, then by each worker in
\* HandmadeWorker::new / DerivedWorker::new
ThreadInboxNew(t) ==
    /\ thread[t] = IF t = "main" THEN "BindInbox" ELSE "NewInbox"
    /\ LET made == InboxNew(address[t])
       IN  IF made.kind = "panic"
           THEN Unwound(t)
           ELSE /\ inbox' = [inbox EXCEPT ![t] = made]
                /\ thread' = [thread EXCEPT ![t] =
                                IF t = "main" THEN "SpawnFirst" ELSE "NewOutbox"]
    /\ UNCHANGED <<overflow_checks, envVars, loopVars, test, address, input, observed>>

\* std::thread::spawn of a worker's thread
Spawn(w) ==
    /\ thread["main"] = IF w = "w1" THEN "SpawnFirst" ELSE "SpawnSecond"
    /\ thread' = [thread EXCEPT ![w] = "NewInbox",
                                !["main"] = IF w = "w1" THEN "SpawnSecond" ELSE "NewOutbox"]
    /\ UNCHANGED <<overflow_checks, envVars, loopVars, test, address, input, inbox, observed>>

\* Outbox::new(ctx, &next, &own): connect succeeds when the endpoint is
\* bound; when it is not, the transport either keeps the connection pending
\* or refuses it
ThreadOutboxNew(t) ==
    /\ thread[t] = "NewOutbox"
    /\ LET made == OutboxNew(address[NextStage(t)], address[t])
       IN  \/ /\ outbox' = [outbox EXCEPT ![t] = made]
              /\ new_args' = [new_args EXCEPT ![t] =
                    [dest |-> address[NextStage(t)], source |-> address[t]]]
              /\ thread' = [thread EXCEPT ![t] = IF t = "main" THEN "SendB" ELSE "Running"]
              /\ UNCHANGED inbox
           \/ /\ made.endpoint \notin Bound
              /\ Unwound(t)
              /\ UNCHANGED <<outbox, new_args>>
    /\ UNCHANGED <<overflow_checks, pipe, envelope, opened, loopVars,
                   test, address, input, observed>>

\* the receive of a worker: the next message of its Inbox, opened and
\* deserialized
WorkerReceive(w) ==
    /\ pc[w] = "Receiving"
    /\ \E u \in SendersTo(w) :
        \E got \in {OpenAndDeserialize(item, Head(pipe[u]).bytes)} :
            /\ pipe' = [pipe EXCEPT ![u] = Tail(@)]
            /\ IF got.kind = "panic"
               THEN /\ pc' = [pc EXCEPT ![w] = "Panicked"]
                    /\ Unwound(w)
                    /\ UNCHANGED <<current, trace>>
               ELSE /\ pc' = [pc EXCEPT ![w] = "Dispatching"]
                    /\ current' = [current EXCEPT ![w] = got.message]
                    /\ trace' = [trace EXCEPT ![w] =
                                    Append(@, [ev |-> "receive", message |-> got.message])]
                    /\ UNCHANGED <<thread, inbox>>
    /\ UNCHANGED <<overflow_checks, outbox, new_args, envelope, opened, item, trait,
                   test, address, input, observed>>

\* a faulty handler: handle_message_a forwards MessageA and goes on
WorkerHandlerMutant(w, call) ==
    IF call.method = Id_handle_message_a
    THEN [kind |-> "ok", send |-> MessageA, ret |-> FALSE]
    ELSE Let(U64Add(call.args[1], input[w], overflow_checks),
             LAMBDA sum :
                IF sum.kind = "panic" THEN sum
                ELSE [kind |-> "ok", send |-> MessageB(sum.val, StringPayload),
                      ret |-> FALSE])

\* the handlers of HandmadeWorker and DerivedWorker: handle_message_a
\* forwards MessageA and ends the loop; handle_message_b forwards MessageB
\* with the worker's payload added to c_foo and goes on
WorkerHandler(w, call) ==
    IF call.method = Id_handle_message_a
    THEN [kind |-> "ok", send |-> MessageA, ret |-> TRUE]
    ELSE Let(U64Add(call.args[1], input[w], overflow_checks),
             LAMBDA sum :
                IF sum.kind = "panic" THEN sum
                ELSE [kind |-> "ok", send |-> MessageB(sum.val, StringPayload),
                      ret |-> FALSE])

\* dispatch_message of a worker: the handler sends, and the loop goes on or
\* ends
WorkerDispatch(w) ==
    /\ pc[w] = "Dispatching"
    /\ Len(pipe[w]) < MaxQueue
    /\ \E handled \in {WorkerHandler(w, dispatch_message(trait, current[w]))} :
           IF handled.kind = "panic"
           THEN /\ pc' = [pc EXCEPT ![w] = "Panicked"]
                /\ Unwound(w)
                /\ UNCHANGED <<pipe, trace>>
           ELSE /\ pipe' = Sent(w, handled.send)
                /\ trace' = [trace EXCEPT ![w] = @ \o DispatchEvents(current[w], handled.ret)]
                /\ pc' = [pc EXCEPT ![w] = RunNext(handled.ret)]
                /\ UNCHANGED <<thread, inbox>>
    /\ current' = [current EXCEPT ![w] = None]
    /\ UNCHANGED <<overflow_checks, outbox, new_args, envelope, opened, item, trait,
                   test, address, input, observed>>

\* run has returned: the worker's thread ends and its Inbox is dropped
WorkerExit(w) ==
    /\ pc[w] = "Terminated"
    /\ thread[w] = "Running"
    /\ thread' = [thread EXCEPT ![w] = "Finished"]
    /\ inbox' = [inbox EXCEPT ![w] = None]
    /\ UNCHANGED <<overflow_checks, envVars, loopVars, test, address, input, observed>>

\* outbox.send(&FirstMessageType::MessageB { c_foo, c_bar: "Ta-da-da" }),
\* and later outbox.send(&FirstMessageType::MessageA), by the spawner
MainSend ==
    /\ thread["main"] \in {"SendB", "SendA"}
    /\ Len(pipe["main"]) < MaxQueue
    /\ pipe' = Sent("main", IF thread["main"] = "SendB"
                            THEN MessageB(input.v, TaDaDa) ELSE MessageA)
    /\ thread' = [thread EXCEPT !["main"] =
                    IF thread["main"] = "SendB" THEN "ReceiveB" ELSE "ReceiveA"]
    /\ UNCHANGED <<overflow_checks, outbox, new_args, envelope, opened, loopVars,
                   test, address, input, inbox, observed>>

\* v + w1 + w2 without a width: nine bytes
WideSum ==
    Let(AddCarry(input.v, input.w1, 0),
        LAMBDA first : Take(AddCarry(first, Append(input.w2, 0), 0), 9))

\* what the spawner's assertion expects of the message it received first:
\* MessageB whose c_foo is the sum of the three numbers (50 + 42 + 43)
Expected(message) ==
    /\ message.variant = Id_MessageB
    /\ WideSum[9] = 0
    /\ message.fields[1].value = Take(WideSum, 8)

\* the spawner's receive, open and deserialize, and its check of the
\* message: first a MessageB with the expected c_foo, then a MessageA
MainReceive ==
    /\ thread["main"] \in {"ReceiveB", "ReceiveA"}
    /\ \E u \in SendersTo("main") :
        \E got \in {OpenAndDeserialize(FirstMessageType, Head(pipe[u]).bytes)} :
            /\ pipe' = [pipe EXCEPT ![u] = Tail(@)]
            /\ IF got.kind = "panic"
               THEN Unwound("main") /\ UNCHANGED observed
               ELSE /\ observed' = Append(observed,
                        [message |-> got.message,
                         relaying |-> \A w \in Workers :
                            pc[w] \in {"Idle", "Receiving", "Dispatching", "PostRun"}])
                    /\ IF thread["main"] = "ReceiveB"
                       THEN IF Expected(got.message)
                            THEN /\ thread' = [thread EXCEPT !["main"] = "SendA"]
                                 /\ UNCHANGED inbox
                            ELSE Unwound("main")
                       ELSE IF got.message.variant = Id_MessageA
                            THEN /\ thread' = [thread EXCEPT !["main"] = "JoinFirst"]
                                 /\ UNCHANGED inbox
                            ELSE Unwound("main")
    /\ UNCHANGED <<overflow_checks, outbox, new_args, envelope, opened, loopVars,
                   test, address, input>>

\* first_worker_thread.join().expect(..), then the second: a worker that
\* panicked makes the spawner panic
Join(w) ==
    /\ thread["main"] = IF w = "w1" THEN "JoinFirst" ELSE "JoinSecond"
    /\ thread[w] \in {"Finished", "Panicked"}
    /\ IF thread[w] = "Finished"
       THEN /\ thread' = [thread EXCEPT !["main"] = IF w = "w1" THEN "JoinSecond" ELSE "Done"]
            /\ UNCHANGED inbox
       ELSE Unwound("main")
    /\ UNCHANGED <<overflow_checks, envVars, loopVars, test, address, input, observed>>

NextRelay ==
    \/ \E t \in Threads : ThreadInboxNew(t)
    \/ \E w \in Workers : Spawn(w)
    \/ \E t \in Threads : ThreadOutboxNew(t)
    \/ \E w \in Workers : Run(w)
    \/ \E w \in Workers : PreRun(w)
    \/ \E w \in Workers : WorkerReceive(w)
    \/ \E w \in Workers : WorkerDispatch(w)
    \/ \E w \in Workers : PostRun(w)
    \/ \E w \in Workers : WorkerExit(w)
    \/ MainSend
    \/ MainReceive
    \/ \E w \in Workers : Join(w)

SpecRelay == InitRelay /\ [][NextRelay]_vars

\* the three addresses differ
DistinctAddresses == \A t, u \in Threads : t # u => address[t] # address[u]

\* C10. Two-hop relay: with both workers running, the first message the
\* spawner's Inbox receives is a MessageB whose c_foo is v + p1 + p2, when
\* that sum fits in 64 bits, never a MessageA, and no second MessageB
\* follows it.
C10_RelayResult ==
    (observed # <<>> /\ observed[1].relaying /\ WideSum[9] = 0) =>
        /\ observed[1].message = MessageB(Take(WideSum, 8), StringPayload)
        /\ \A i \in 2..Len(observed) : observed[i].message.variant # Id_MessageB

\* the spawner has received MessageB with c_foo = 135 through both workers
C10_Witness ==
    /\ observed # <<>>
    /\ observed[1].relaying
    /\ input.v = ToU64(50)
    /\ observed[1].message = MessageB(ToU64(135), StringPayload)
    /\ thread["main"] = "SendA"

\* ---- the relay under fair scheduling ---------------------------------------
\* Each thread is scheduled by the operating system: a thread that can take
\* its next step keeps being able to until it takes it (the only step that
\* waits is a blocking receive, which can be taken once a message for the
\* Inbox is in a pipe and stays so until this thread receives it).

\* the next step of the spawner's program
MainStep ==
    \/ ThreadInboxNew("main")
    \/ \E w \in Workers : Spawn(w)
    \/ ThreadOutboxNew("main")
    \/ MainSend
    \/ MainReceive
    \/ \E w \in Workers : Join(w)

\* the next step of a worker's thread
WorkerStep(w) ==
    \/ ThreadInboxNew(w)
    \/ ThreadOutboxNew(w)
    \/ Run(w)
    \/ PreRun(w)
    \/ WorkerReceive(w)
    \/ WorkerDispatch(w)
    \/ PostRun(w)
    \/ WorkerExit(w)

SpecRelayFair ==
    /\ InitRelay
    /\ [][NextRelay]_vars
    /\ WF_vars(MainStep)
    /\ \A w \in Workers : WF_vars(WorkerStep(w))

\* the number of MessageA among the messages of a sequence of records with
\* a `message` field
CountA(msgs) == Len(SelectSeq(msgs, LAMBDA m : m.message.variant = Id_MessageA))

\* the MessageA the Inbox of thread t has received
ReceivedA(t) ==
    IF t = "main" THEN CountA(observed)
    ELSE CountA(SelectSeq(trace[t], LAMBDA e : e.ev = "receive"))

\* the MessageA worker w has sent downstream: those still in its pipe and
\* those the next stage has received
ForwardedA(w) == CountA(pipe[w]) + ReceivedA(NextStage(w))

\* the spawner has received the MessageB reply its assertion accepts
ReplyReceived == observed # <<>> /\ Expected(observed[1].message)

\* all three programs have run to their end
RelayDone ==
    /\ thread["main"] = "Done"
    /\ \A w \in Workers : thread[w] = "Finished" /\ pc[w] = "Terminated"

\* C11. Relay shutdown: after the spawner has received the MessageB reply
\* and sends MessageA, each worker forwards exactly one MessageA and ends
\* its loop, the spawner's second message is MessageA, no thread panics, and
\* under fair scheduling both workers finish and both joins return.
C11_RelayShutdown ==
    /\ [](ReplyReceived =>
            /\ \A t \in Threads : thread[t] # "Panicked"
            /\ \A w \in Workers :
                /\ ForwardedA(w) <= 1
                /\ pc[w] = "Terminated" <=> ForwardedA(w) = 1
            /\ Len(observed) <= 2
            /\ Len(observed) = 2 => observed[2].message = MessageA
            /\ thread["main"] \in {"JoinFirst", "JoinSecond", "Done"} =>
                    (Len(observed) = 2 /\ \A w \in Workers : pc[w] = "Terminated"))
    /\ ReplyReceived ~> RelayDone

\* both joins have returned after a relay of MessageB and MessageA
C11_Witness ==
    /\ RelayDone
    /\ Len(observed) = 2
    /\ observed[2].message = MessageA
    /\ \A w \in Workers : ForwardedA(w) = 1

\* C12. Connect happens after bind: in the relay with three different
\* addresses, every step that constructs an Outbox connects it to an
\* endpoint an Inbox is bound to at that moment.
C12_ConnectAfterBind ==
    [][DistinctAddresses =>
        \A t \in Threads :
            (outbox[t] = None /\ outbox'[t] # None) => outbox'[t].endpoint \in Bound]_vars

\* ---- the mailbox specification: two Outboxes and one Inbox ---------------------
\* The spawner's thread owns an Inbox; each of the two other threads owns an
\* Outbox connected to it. The transport (a PUSH/PULL pair per Outbox) takes
\* a message at send, carries it, and puts it in the Inbox's queue: a message
\* of a pipe is in flight until it has `arrived`. Messages of one sender
\* arrive in the order they were sent. In this specification trace[w] is the
\* log of the sends of w's Outbox and observed the log of the calls of
\* Inbox::receive.

\* Some(bytes)
Some(bytes) == [kind |-> "some", bytes |-> bytes]

\* faulty flags: the call never waits
RecvFlagsNeverWaits(should_block) == "DONTWAIT"

\* the flags Inbox::receive gives to recv_bytes
RecvFlags(should_block) == IF should_block THEN "0" ELSE "DONTWAIT"

\* a faulty receive: every error of the socket is taken for no data
InboxReceiveMutant(recv) ==
    IF recv.kind = "ok" THEN Some(recv.bytes) ELSE None

\* Inbox::receive: what it makes of the socket's result: the bytes, None for
\* EAGAIN, a panic for any other error
InboxReceive(recv) ==
    IF recv.kind = "ok" THEN Some(recv.bytes)
    ELSE IF recv.errno = "EAGAIN" THEN None
    ELSE Panic("Actor failed to receive message")

\* the senders whose oldest message is in the queue of the Inbox of t
ArrivedSenders(t) == {u \in SendersTo(t) : Head(pipe[u]).arrived}

\* a faulty socket: a received message stays in the queue
TakenMutant(queue) == queue

\* the queue of a sender once the socket has returned its oldest message
Taken(queue) == Tail(queue)

\* a faulty socket: a message is returned without its last byte
SocketRecvMutant(t, flags) ==
    {[kind |-> "ok", bytes |-> Take(Head(pipe[u]).bytes, Len(Head(pipe[u]).bytes) - 1),
      from |-> u] : u \in ArrivedSenders(t)}
        \cup (IF flags = "DONTWAIT" /\ ArrivedSenders(t) = {}
              THEN {[kind |-> "err", errno |-> "EAGAIN"]} ELSE {})
        \cup {[kind |-> "err", errno |-> "EINTR"]}

\* what recv_bytes(flags) on the socket of t's Inbox can return: the oldest
\* arrived message of some sender; EAGAIN when nothing has arrived and the
\* call does not wait (a call that waits returns once something arrives);
\* or an error of the transport (an interrupted call)
SocketRecv(t, flags) ==
    {[kind |-> "ok", bytes |-> Head(pipe[u]).bytes, from |-> u] : u \in ArrivedSenders(t)}
        \cup (IF flags = "DONTWAIT" /\ ArrivedSenders(t) = {}
              THEN {[kind |-> "err", errno |-> "EAGAIN"]} ELSE {})
        \cup {[kind |-> "err", errno |-> "EINTR"]}

\* the addresses of the mailbox specification: two local, one remote
MailAddress ==
    [t \in Threads |->
        CASE t = "main" -> AddressNew("Local", <<97>>, 0).address
          [] t = "w1" -> AddressNew("Local", <<98>>, 0).address
          [] t = "w2" -> AddressNew("Remote", <<>>, 1).address]

\* what the Outboxes send: the first sender a [u8; 1] holding the number of
\* the send, the second MessageA and then MessageB with the number as c_foo
MailMessage(w, n) ==
    IF w = "w1" THEN [type |-> "array", bytes |-> <<n>>]
    ELSE IF n = 1 THEN MessageA
    ELSE MessageB(ToU64(n), <<>>)

\* the messages of a pipe that have not arrived yet
InFlight(queue) == SelectSeq(queue, LAMBDA m : ~m.arrived)

InitMailbox ==
    /\ overflow_checks = TRUE
    /\ NoActors
    /\ envelope = None
    /\ opened = None
    /\ test = None
    /\ input = None
    /\ address = MailAddress
    /\ inbox = [t \in Threads |->
                    IF t = "main"
                    THEN [kind |-> "inbox",
                          endpoint |-> truncate_byte_array_string(MailAddress[t].conn_string)]
                    ELSE None]
    /\ outbox = [t \in Threads |->
                    IF t \in Workers THEN OutboxNew(MailAddress["main"], MailAddress[t])
                    ELSE None]
    /\ new_args = [t \in Threads |->
                    IF t \in Workers
                    THEN [dest |-> MailAddress["main"], source |-> MailAddress[t]]
                    ELSE None]
    /\ pipe = [t \in Threads |-> <<>>]
    /\ thread = [t \in Threads |-> "Running"]
    /\ observed = <<>>

\* the messages sent so far, and those of them that no receive has returned
SentSoFar == Len(trace["w1"]) + Len(trace["w2"])

Pending == Len(pipe["w1"]) + Len(pipe["w2"])

\* outbox.send(&message) by thread w: one message given to the socket (a
\* PUSH socket whose peer is gone takes none: the send waits)
MailSend(w) ==
    /\ inbox["main"] # None
    /\ SentSoFar < MaxSends
    /\ Len(pipe[w]) < MaxQueue
    /\ \E message \in {MailMessage(w, Len(trace[w]) + 1)} :
        \E bytes \in {OutboxSendBytes(outbox[w], message)} :
            /\ pipe' = [pipe EXCEPT ![w] =
                            Append(@, [bytes |-> bytes, endpoint |-> outbox[w].endpoint,
                                       message |-> message, arrived |-> FALSE])]
            /\ trace' = [trace EXCEPT ![w] =
                            Append(@, [ev |-> "send", message |-> message, bytes |-> bytes])]
    /\ UNCHANGED <<overflow_checks, outbox, new_args, envelope, opened,
                   item, trait, pc, current, relayVars>>

\* the transport puts the oldest message in flight from w in the queue of
\* the Inbox
MailDeliver(w) ==
    /\ inbox["main"] # None
    /\ InFlight(pipe[w]) # <<>>
    /\ LET i == Len(pipe[w]) - Len(InFlight(pipe[w])) + 1
       IN  pipe' = [pipe EXCEPT ![w][i].arrived = TRUE]
    /\ UNCHANGED <<overflow_checks, outbox, new_args, envelope, opened, loopVars, relayVars>>

\* inbox.receive(ShouldBlock(should_block)) by the thread that owns the
\* Inbox; a panic unwinds it
MailReceive ==
    /\ thread["main"] = "Running"
    /\ Len(observed) < MaxReceives
    /\ \E should_block \in BOOLEAN :
        \E recv \in SocketRecv("main", RecvFlags(should_block)) :
            \E result \in {InboxReceive(recv)} :
                /\ observed' = Append(observed,
                        [should_block |-> should_block, recv |-> recv, result |-> result,
                         sent |-> SentSoFar, pending |-> Pending, queued |-> pipe,
                         arrived |-> Pending - Len(InFlight(pipe["w1"]))
                                        - Len(InFlight(pipe["w2"]))])
                /\ pipe' = IF recv.kind = "ok"
                           THEN [pipe EXCEPT ![recv.from] = Taken(@)]
                           ELSE pipe
                /\ IF result.kind = "panic"
                   THEN Unwound("main")
                   ELSE UNCHANGED <<thread, inbox>>
    /\ UNCHANGED <<overflow_checks, outbox, new_args, envelope, opened, loopVars,
                   test, address, input>>

NextMailbox ==
    \/ \E w \in Workers : MailSend(w)
    \/ \E w \in Workers : MailDeliver(w)
    \/ MailReceive

SpecMailbox == InitMailbox /\ [][NextMailbox]_vars

\* the bytes the receives have returned from sender w, in the order of the
\* receives
ReceivedFrom(w) ==
    LET got == SelectSeq(observed, LAMBDA r : r.recv.kind = "ok" /\ r.recv.from = w)
    IN  [i \in 1..Len(got) |-> got[i].result.bytes]

\* the bytes of the messages of a queue or of a log of sends
BytesOf(msgs) == [i \in 1..Len(msgs) |-> msgs[i].bytes]

\* C13. Per-sender FIFO delivery: the messages the Inbox has returned from
\* one Outbox, followed by those of that Outbox still under way, are exactly
\* the messages the Outbox sent, in the order of the sends: none is lost,
\* duplicated or reordered, however the receives interleave the senders.
C13_PerSenderFifo ==
    /\ \A w \in Workers : ReceivedFrom(w) \o BytesOf(pipe[w]) = BytesOf(trace[w])
    /\ \A i \in 1..Len(observed) :
        observed[i].recv.kind = "ok" => observed[i].result = Some(observed[i].recv.bytes)

\* two different messages of the first sender were received in the order of
\* the sends, with a message of the second sender between them
C13_Witness ==
    /\ Len(observed) = 3
    /\ \A i \in 1..3 : observed[i].recv.kind = "ok"
    /\ observed[1].recv.from = "w1" /\ observed[2].recv.from = "w2"
    /\ observed[3].recv.from = "w1"
    /\ observed[1].result.bytes # observed[3].result.bytes
    /\ observed[1].result.bytes = trace["w1"][1].bytes

\* whether a result of the socket is an error other than EAGAIN
OtherFailure(recv) == recv.kind = "err" /\ recv.errno # "EAGAIN"

\* the step is a call of Inbox::receive that returned None
ReceivedNone ==
    /\ Len(observed') = Len(observed) + 1
    /\ observed'[Len(observed')].result = None

\* C14. Non-blocking receive on an empty inbox: a receive that does not
\* block, called when no message is in the Inbox's queue, can always return
\* at once; unless the transport fails it returns None, and the call that
\* returns None changes neither the queues, nor the Inbox, nor the thread.
\* None is returned for EAGAIN only, which only a non-blocking call on an
\* empty queue gets; every other error of the socket is a panic that ends
\* the receiving thread.
C14_NonBlockingEmpty ==
    /\ [](\A i \in 1..Len(observed) :
            LET r == observed[i]
            IN  /\ (~r.should_block /\ r.arrived = 0 /\ ~OtherFailure(r.recv)) =>
                        r.result = None
                /\ r.result = None <=> (r.recv.kind = "err" /\ r.recv.errno = "EAGAIN")
                /\ r.result = None => (~r.should_block /\ r.arrived = 0)
                /\ OtherFailure(r.recv) <=> r.result.kind = "panic"
                /\ r.result.kind = "panic" =>
                        (i = Len(observed) /\ thread["main"] = "Panicked"))
    /\ []((thread["main"] = "Running" /\ ArrivedSenders("main") = {}) =>
            \E recv \in SocketRecv("main", RecvFlags(FALSE)) : InboxReceive(recv) = None)
    /\ [][ReceivedNone => (pipe' = pipe /\ inbox' = inbox /\ thread' = thread)]_vars

\* a non-blocking receive returned None while a sent message was still in
\* flight, and the next receive returned that message
C14_Witness ==
    /\ Len(observed) = 2
    /\ observed[1].result = None
    /\ ~observed[1].should_block
    /\ observed[1].pending = 1
    /\ observed[2].result.kind = "some"
    /\ observed[2].sent = 1
    /\ thread["main"] = "Running"

\* the receive i returned no data from an Inbox no message was under way
\* to, exactly one send followed, and then the receive i + 1, which does not
\* block and which the transport did not fail
SendBetween(i) ==
    /\ observed[i].result = None
    /\ observed[i].pending = 0
    /\ observed[i + 1].sent = observed[i].sent + 1
    /\ ~observed[i + 1].should_block
    /\ ~OtherFailure(observed[i + 1].recv)

\* the one message under way when the receive i was called
TheMessage(i) ==
    LET w == CHOOSE u \in Workers : observed[i].queued[u] # <<>>
    IN  observed[i].queued[w][1]

\* every receive that returned bytes returned the bytes of one send, whole:
\* the serialized message and the two addresses
WholeMessages ==
    \A i \in 1..Len(observed) :
        observed[i].result.kind = "some" =>
            \E w \in Workers : \E k \in 1..Len(trace[w]) :
                /\ observed[i].result.bytes = trace[w][k].bytes
                /\ Len(observed[i].result.bytes) =
                        Len(Serialize(trace[w][k].message)) + 2 * ADDRESS_LENGTH

\* C15, as claimed. After a non-blocking receive on an empty Inbox returned
\* no data, a send to the Inbox followed by a non-blocking receive returns
\* the bytes of that send, as one whole message.
C15_SendThenReceive ==
    /\ WholeMessages
    /\ \A i \in 1..(Len(observed) - 1) :
        SendBetween(i) => observed[i + 1].result = Some(TheMessage(i + 1).bytes)

\* C15, amended. After a non-blocking receive on an empty Inbox returned no
\* data and one send to the Inbox followed, a non-blocking receive returns
\* the bytes of that send, as one whole message, once the transport has put
\* the message in the Inbox's queue, and no data while the message is still
\* in flight; a receive never returns a fragment or a concatenation.
C15_SendThenReceiveArrived ==
    /\ WholeMessages
    /\ \A i \in 1..(Len(observed) - 1) :
        SendBetween(i) =>
            observed[i + 1].result =
                IF TheMessage(i + 1).arrived THEN Some(TheMessage(i + 1).bytes) ELSE None

\* no data, then a send of MessageA, then a non-blocking receive that
\* returned the 68 bytes of that send
C15_Witness ==
    /\ Len(observed) >= 2
    /\ SendBetween(1)
    /\ TheMessage(2).arrived
    /\ observed[2].result.kind = "some"
    /\ Len(observed[2].result.bytes) = 4 + 2 * ADDRESS_LENGTH
    /\ observed[2].result.bytes = trace["w2"][1].bytes

\* ---- the address specification ---------------------------------------------
\* One Address, made by Address::new or taken out of an envelope by
\* Envelope::open, and the calls on it: get_type, as_str, and the string
\* Inbox::new binds to and Outbox::new connects to. In this specification
\* new_args["main"] says how the address was made and observed holds the
\* results of get_type and as_str.

\* faulty get_type: one that takes anything that is not Remote for Local,
\* one that looks at the first byte only and confuses the kinds
GetTypeLenient(addr) ==
    IF Take(addr.conn_string, 3) = <<116, 99, 112>>
    THEN [kind |-> "ok", val |-> "Remote"] ELSE [kind |-> "ok", val |-> "Local"]

GetTypeSwapped(addr) ==
    IF addr.conn_string[1] = 105 THEN [kind |-> "ok", val |-> "Remote"]
    ELSE IF addr.conn_string[1] = 116 THEN [kind |-> "ok", val |-> "Local"]
    ELSE Panic("Address connection string is malformed")

\* Address::get_type: Local for 'inp', Remote for 'tcp', otherwise a panic
GetType(addr) ==
    LET prefix == Take(addr.conn_string, 3)
    IN  IF prefix = <<105, 110, 112>> THEN [kind |-> "ok", val |-> "Local"]
        ELSE IF prefix = <<116, 99, 112>> THEN [kind |-> "ok", val |-> "Remote"]
        ELSE Panic("Address connection string is malformed")

\* std::str::from_utf8 on the byte strings of the model, whose bytes above
\* 127 never make a valid sequence
IsUtf8(bytes) == \A i \in 1..Len(bytes) : bytes[i] <= 127

\* Address::as_str: the whole buffer as a string
AsStr(addr) ==
    IF IsUtf8(addr.conn_string) THEN [kind |-> "ok", val |-> addr.conn_string]
    ELSE Panic("Address connection string is not valid utf-8")

\* the longest name that fits: ADDRESS_LENGTH - "inproc://".len() characters
LongestName == [i \in 1..(ADDRESS_LENGTH - Len(InprocPrefix)) |-> 97 + (i % 26)]

\* what Address::new is asked for and what its random sources return: names
\* of one character and the longest that fits; the smallest and the largest
\* port
NewDraws ==
    {[address_type |-> "Local", name |-> n, rnd |-> 0] : n \in {<<97>>, <<98>>, LongestName}}
        \cup {[address_type |-> "Remote", name |-> <<>>, rnd |-> r] : r \in {0, 1, 4999}}

\* the first three bytes and the other 29 of the trailers an envelope may
\* end with: 'inp', 'tcp', prefixes one byte away from them, zeros; zeros,
\* letters, bytes that are no text
TrailerPrefixes ==
    {<<105, 110, 112>>, <<116, 99, 112>>, <<105, 110, 113>>, <<116, 99, 0>>,
     <<73, 78, 80>>, <<112, 110, 105>>, <<0, 0, 0>>, <<255, 110, 112>>}

TrailerRests ==
    {Zeros(ADDRESS_LENGTH - 3), [i \in 1..(ADDRESS_LENGTH - 3) |-> 96 + (i % 26)],
     [i \in 1..(ADDRESS_LENGTH - 3) |-> 255]}

InitAddress ==
    /\ overflow_checks = TRUE
    /\ NoActors
    /\ NoMailboxes
    /\ test = None
    /\ input = None
    /\ address = [t \in Threads |-> None]
    /\ inbox = [t \in Threads |-> None]
    /\ thread = [t \in Threads |-> IF t = "main" THEN "Running" ELSE "Unspawned"]
    /\ observed = [get_type |-> None, as_str |-> None]

\* Address::new(address_type)
AddrNew ==
    /\ address["main"] = None
    /\ thread["main"] = "Running"
    /\ \E draw \in NewDraws :
        \E made \in {AddressNew(draw.address_type, draw.name, draw.rnd)} :
            /\ new_args' = [new_args EXCEPT !["main"] =
                                [how |-> "new", address_type |-> draw.address_type,
                                 name |-> draw.name, rnd |-> draw.rnd]]
            /\ IF made.kind = "panic"
               THEN /\ thread' = [thread EXCEPT !["main"] = "Panicked"]
                    /\ UNCHANGED address
               ELSE /\ address' = [address EXCEPT !["main"] = made.address]
                    /\ UNCHANGED thread
    /\ UNCHANGED <<overflow_checks, outbox, pipe, envelope, opened, loopVars,
                   test, input, inbox, observed>>

\* Envelope::from(bytes).open(): the source address of an envelope that ends
\* with any two trailers
AddrOpen ==
    /\ address["main"] = None
    /\ thread["main"] = "Running"
    /\ \E prefix \in TrailerPrefixes, rest \in TrailerRests :
        \E triple \in {EnvelopeOpen(prefix \o rest \o Zeros(ADDRESS_LENGTH), overflow_checks)} :
            /\ address' = [address EXCEPT !["main"] = triple.source]
            /\ new_args' = [new_args EXCEPT !["main"] = [how |-> "open"]]
    /\ UNCHANGED <<overflow_checks, outbox, pipe, envelope, opened, loopVars,
                   test, input, inbox, thread, observed>>

\* a call that panics ends the thread
AfterCall(result) == IF result.kind = "panic" THEN "Panicked" ELSE "Running"

\* address.get_type()
AddrGetType ==
    /\ address["main"] # None
    /\ thread["main"] = "Running"
    /\ observed.get_type = None
    /\ \E result \in {GetType(address["main"])} :
        /\ observed' = [observed EXCEPT !.get_type = [result |-> result]]
        /\ thread' = [thread EXCEPT !["main"] = AfterCall(result)]
    /\ UNCHANGED <<overflow_checks, envVars, loopVars, test, address, input, inbox>>

\* address.as_str()
AddrAsStr ==
    /\ address["main"] # None
    /\ thread["main"] = "Running"
    /\ observed.as_str = None
    /\ \E result \in {AsStr(address["main"])} :
        /\ observed' = [observed EXCEPT !.as_str = [result |-> result]]
        /\ thread' = [thread EXCEPT !["main"] = AfterCall(result)]
    /\ UNCHANGED <<overflow_checks, envVars, loopVars, test, address, input, inbox>>

\* Inbox::new(ctx, &address) with an address Address::new made
AddrInboxNew ==
    /\ address["main"] # None
    /\ new_args["main"].how = "new"
    /\ thread["main"] = "Running"
    /\ inbox["main"] = None
    /\ inbox' = [inbox EXCEPT !["main"] = InboxNew(address["main"])]
    /\ UNCHANGED <<overflow_checks, envVars, loopVars, test, address, input, thread, observed>>

\* Outbox::new(ctx, &address, &address) once the Inbox is bound
AddrOutboxNew ==
    /\ inbox["main"] # None
    /\ thread["main"] = "Running"
    /\ outbox["main"] = None
    /\ outbox' = [outbox EXCEPT !["main"] = OutboxNew(address["main"], address["main"])]
    /\ UNCHANGED <<overflow_checks, new_args, pipe, envelope, opened, loopVars, relayVars>>

NextAddress ==
    \/ AddrNew
    \/ AddrOpen
    \/ AddrGetType
    \/ AddrAsStr
    \/ AddrInboxNew
    \/ AddrOutboxNew

SpecAddress == InitAddress /\ [][NextAddress]_vars

\* the address was made by Address::new
MadeByNew == address["main"] # None /\ new_args["main"].how = "new"

\* C16. Address scheme round trip: get_type of an address that
\* Address::new(kind) made returns kind, for both kinds, and never panics;
\* such an address starts with 'inp' when the kind is Local and with 'tcp'
\* when it is Remote.
C16_SchemeRoundTrip ==
    MadeByNew =>
        /\ Take(address["main"].conn_string, 3) =
                IF new_args["main"].address_type = "Local"
                THEN <<105, 110, 112>> ELSE <<116, 99, 112>>
        /\ GetType(address["main"]) = [kind |-> "ok", val |-> new_args["main"].address_type]
        /\ observed.get_type # None =>
                /\ observed.get_type.result =
                        [kind |-> "ok", val |-> new_args["main"].address_type]
                /\ thread["main"] = "Running"

\* get_type has returned Local for a local address of full length
C16_Witness ==
    /\ MadeByNew
    /\ new_args["main"].name = LongestName
    /\ observed.get_type # None
    /\ observed.get_type.result = [kind |-> "ok", val |-> "Local"]

\* the formatted content scheme://token of the address Address::new made
Content ==
    IF new_args["main"].address_type = "Local"
    THEN InprocPrefix \o new_args["main"].name
    ELSE TcpPrefix \o Digits(5000 + new_args["main"].rnd)

\* C17. Connectable string is free of filler bytes: for an address made by
\* Address::new, the string Inbox::new binds to and Outbox::new connects to,
\* and the string as_str returns, hold no zero byte and are exactly the
\* formatted content scheme://token.
C17_NoFillerInStrings ==
    MadeByNew =>
        /\ \A i \in 1..Len(Content) : Content[i] # 0
        /\ truncate_byte_array_string(address["main"].conn_string) = Content
        /\ inbox["main"] # None => inbox["main"].endpoint = Content
        /\ outbox["main"] # None => outbox["main"].endpoint = Content
        /\ observed.as_str # None => observed.as_str.result = [kind |-> "ok", val |-> Content]

\* C18. Address uniqueness: in the relay tests the three addresses that the
\* three Address::new calls returned are different, no two Inboxes are bound
\* to one endpoint, and no Inbox::new is about to fail because its endpoint
\* is in use.
C18_AddressesUnique ==
    /\ DistinctAddresses
    /\ \A t, u \in Threads :
        (t # u /\ inbox[t] # None /\ inbox[u] # None) => inbox[t].endpoint # inbox[u].endpoint
    /\ \A t \in Threads :
        thread[t] \in {"BindInbox", "NewInbox"} => InboxNew(address[t]).kind # "panic"

\* C20. Malformed address detection: get_type of any address, made by
\* Address::new or taken out of an envelope, returns Local exactly when its
\* first three bytes are 'inp' and Remote exactly when they are 'tcp',
\* whatever the other 29 bytes are; for any other prefix it ends in the
\* malformed-address panic, which ends the calling thread, and returns no
\* kind.
C20_MalformedDetected ==
    address["main"] # None =>
        LET prefix == Take(address["main"].conn_string, 3)
            result == GetType(address["main"])
        IN  /\ prefix = <<105, 110, 112>> <=> result = [kind |-> "ok", val |-> "Local"]
            /\ prefix = <<116, 99, 112>> <=> result = [kind |-> "ok", val |-> "Remote"]
            /\ prefix \notin {<<105, 110, 112>>, <<116, 99, 112>>} <=>
                    result = Panic("Address connection string is malformed")
            /\ observed.get_type # None =>
                /\ observed.get_type.result = result
                /\ result.kind = "panic" => thread["main"] = "Panicked"

\* get_type has panicked on an address out of an envelope whose prefix is
\* one byte away from 'inp'
C20_Witness ==
    /\ address["main"] # None
    /\ new_args["main"].how = "open"
    /\ Take(address["main"].conn_string, 3) = <<105, 110, 113>>
    /\ observed.get_type # None
    /\ observed.get_type.result.kind = "panic"
    /\ thread["main"] = "Panicked"


\* ---- the fault specification ----------------------------------------------
\*
\* The relay's three threads once everything is constructed: each worker
\* runs its loop on an Inbox that other peers can send anything to, and the
\* transport can fail any receive.  pipe["main"] holds what the peers
\* outside the workers have sent: envelopes packed by an Outbox and the
\* buffers of raw PUSH sockets.  `observed` is the list of the fatal errors,
\* each with the actor it ended and what its socket had given.

\* most buffers the outside has sent that no worker has received yet
MaxInjected == 1

\* the endpoint the Inbox of t is bound to
EndpointOf(t) == truncate_byte_array_string(address[t].conn_string)

\* what the outside sends to worker w: MessageA and MessageB packed by an
\* Outbox; a [u8; 1] packed by an Outbox, which is no message of the
\* worker's type; a raw buffer of 63 bytes
FaultBuffers(w) ==
    {[bytes |-> OutboxSendBytes(OutboxNew(address[w], address["main"]), m),
      endpoint |-> EndpointOf(w), message |-> m, arrived |-> TRUE] :
        m \in {MessageA, MessageB(ToU64(50), TaDaDa),
               [type |-> "array", bytes |-> <<9>>]}}
    \cup {[bytes |-> b, endpoint |-> EndpointOf(w),
           message |-> [type |-> "array", bytes |-> b], arrived |-> TRUE] :
            b \in {Zeros(2 * ADDRESS_LENGTH - 1)}}

InitFault ==
    /\ overflow_checks \in BOOLEAN
    /\ envelope = None
    /\ opened = None
    /\ test \in {t \in RelayTests : t.name = "run_derived_worker_local"}
    /\ item = SecondMessageType
    /\ trait = actor_message(SecondMessageType)
    /\ pc = [a \in Actors |-> "NotStarted"]
    /\ current = [a \in Actors |-> None]
    /\ trace = [a \in Actors |-> <<>>]
    /\ address = [t \in Threads |->
                    CASE t = "main" -> AddressNew(test.address_type, <<97>>, 0).address
                      [] t = "w1" -> AddressNew(test.address_type, <<98>>, 1).address
                      [] t = "w2" -> AddressNew(test.address_type, <<99>>, 4999).address]
    /\ input = [v |-> ToU64(50), w1 |-> ToU64(42), w2 |-> ToU64(43)]
    /\ inbox = [t \in Threads |-> [kind |-> "inbox", endpoint |-> EndpointOf(t)]]
    /\ outbox = [t \in Threads |-> OutboxNew(address[NextStage(t)], address[t])]
    /\ new_args = [t \in Threads |->
                    [dest |-> address[NextStage(t)], source |-> address[t]]]
    /\ pipe = [t \in Threads |-> <<>>]
    /\ thread = [t \in Threads |-> "Running"]
    /\ observed = <<>>

\* a peer outside the workers sends a buffer to the Inbox of worker w (a
\* PUSH socket whose peer is gone takes none)
FaultSend(w) ==
    /\ inbox[w] # None
    /\ Len(pipe["main"]) < MaxInjected
    /\ \E sent \in FaultBuffers(w) :
        pipe' = [pipe EXCEPT !["main"] = Append(@, sent)]
    /\ UNCHANGED <<overflow_checks, outbox, new_args, envelope, opened, loopVars, relayVars>>

\* DerivedWorker::receive and HandmadeWorker::receive on what the socket
\* gave: Inbox::receive(ShouldBlock(true)), expect, Envelope::open and
\* bincode::deserialize
ActorReceived(recv) ==
    Let(InboxReceive(recv),
        LAMBDA received :
            IF received.kind = "panic" THEN received
            ELSE IF received.kind = "none" THEN Panic("Cannot receive message")
            ELSE OpenAndDeserialize(item, received.bytes))

\* self.receive() of worker w in its run loop; a panic unwinds its thread
FaultReceive(w) ==
    /\ pc[w] = "Receiving"
    /\ \E recv \in SocketRecv(w, RecvFlags(TRUE)) :
        \E got \in {ActorReceived(recv)} :
            /\ pipe' = IF recv.kind = "ok"
                       THEN [pipe EXCEPT ![recv.from] = Taken(@)]
                       ELSE pipe
            /\ IF got.kind = "panic"
               THEN /\ pc' = [pc EXCEPT ![w] = "Panicked"]
                    /\ Unwound(w)
                    /\ observed' = Append(observed,
                            [actor |-> w, recv |-> recv, what |-> got.what])
                    /\ UNCHANGED <<current, trace>>
               ELSE /\ pc' = [pc EXCEPT ![w] = "Dispatching"]
                    /\ current' = [current EXCEPT ![w] = got.message]
                    /\ trace' = [trace EXCEPT ![w] =
                                    Append(@, [ev |-> "receive", message |-> got.message])]
                    /\ UNCHANGED <<thread, inbox, observed>>
    /\ UNCHANGED <<overflow_checks, outbox, new_args, envelope, opened, item, trait,
                   test, address, input>>

\* self.dispatch_message(message) of worker w: the handler sends to the next
\* stage
FaultDispatch(w) ==
    /\ pc[w] = "Dispatching"
    /\ Len(pipe[w]) < MaxQueue
    /\ \E handled \in {WorkerHandler(w, dispatch_message(trait, current[w]))} :
           IF handled.kind = "panic"
           THEN /\ pc' = [pc EXCEPT ![w] = "Panicked"]
                /\ Unwound(w)
                /\ UNCHANGED <<pipe, trace>>
           ELSE /\ pipe' = [pipe EXCEPT ![w] =
                                Append(@, [bytes |-> OutboxSendBytes(outbox[w], handled.send),
                                           endpoint |-> outbox[w].endpoint,
                                           message |-> handled.send, arrived |-> TRUE])]
                /\ trace' = [trace EXCEPT ![w] = @ \o DispatchEvents(current[w], handled.ret)]
                /\ pc' = [pc EXCEPT ![w] = RunNext(handled.ret)]
                /\ UNCHANGED <<thread, inbox>>
    /\ current' = [current EXCEPT ![w] = None]
    /\ UNCHANGED <<overflow_checks, outbox, new_args, envelope, opened, item, trait,
                   test, address, input, observed>>

NextFault ==
    \/ \E w \in Workers : FaultSend(w)
    \/ \E w \in Workers : Run(w)
    \/ \E w \in Workers : PreRun(w)
    \/ \E w \in Workers : FaultReceive(w)
    \/ \E w \in Workers : FaultDispatch(w)
    \/ \E w \in Workers : PostRun(w)
    \/ \E w \in Workers : WorkerExit(w)

SpecFault == InitFault /\ [][NextFault]_vars

\* the messages pending for the Inbox of t, sender by sender
PendingFor(t) ==
    [u \in Threads |-> SelectSeq(pipe[u], LAMBDA m : m.endpoint = EndpointOf(t))]

\* the step is a fatal error of worker w
Fails(w) == pc[w] # "Panicked" /\ pc'[w] = "Panicked"

\* the diagnostics of the three fatal per-message errors
ShortEnvelope == {"attempt to subtract with overflow", "range start index out of range"}
BadPayload == {"cannot deserialize envelope"}
ReceiveFailure == {"Actor failed to receive message"}

\* C19. Fault isolation: when a worker's receive hits a fatal error (the
\* socket's receive fails, the envelope is shorter than 64 bytes, the
\* payload is no message of its type), the loop of that worker ends and no
\* other; every other thread, its Inbox and the messages pending for its
\* Inbox are what they were; the worker sends nothing in that step nor ever
\* after.
C19_FaultIsolation ==
    /\ [][\A w \in Workers :
            /\ Fails(w) =>
                /\ thread'[w] = "Panicked"
                /\ \A t \in Threads \ {w} :
                    /\ thread'[t] = thread[t]
                    /\ inbox'[t] = inbox[t]
                    /\ PendingFor(t)' = PendingFor(t)
                /\ \A a \in Actors \ {w} :
                    pc'[a] = pc[a] /\ current'[a] = current[a] /\ trace'[a] = trace[a]
                /\ pipe'[w] = pipe[w]
                /\ \A u \in Threads : Len(pipe'[u]) <= Len(pipe[u])
                /\ Len(observed') = Len(observed) + 1
            /\ pc[w] = "Panicked" =>
                /\ pc'[w] = "Panicked"
                /\ Len(pipe'[w]) <= Len(pipe[w])]_vars
    /\ [](\A i \in 1..Len(observed) :
            LET fault == observed[i]
            IN  /\ pc[fault.actor] = "Panicked"
                /\ fault.what \in ShortEnvelope \cup BadPayload \cup ReceiveFailure
                /\ fault.what \in ReceiveFailure <=> fault.recv.kind = "err"
                /\ fault.what \in ShortEnvelope <=>
                        (fault.recv.kind = "ok"
                            /\ Len(fault.recv.bytes) < 2 * ADDRESS_LENGTH))

\* both workers have ended, the first on a short envelope after it had
\* forwarded a message that is still pending for the second, the second on
\* a payload that is no message
C19_Witness ==
    /\ Len(observed) = 2
    /\ observed[1].actor = "w1" /\ observed[1].what \in ShortEnvelope
    /\ observed[2].actor = "w2" /\ observed[2].what \in BadPayload
    /\ PendingFor("w2")["w1"] # <<>>
    /\ thread["main"] = "Running" /\ inbox["main"] # None


\* ---- the name specification -----------------------------------------------
\*
\* #[actor_message] applied to an enum of two unit variants whose
\* identifiers are drawn from VariantIdents.

\* identifiers of variants: "MessageA", "MessageB", "A", "Foo", "foo",
\* "FooBar", "Foo_Bar", "fooBar", "ABc", "A_Bc", "HTTPServer", "_Foo",
\* "Foo_", "X2Y", "__", "___"
VariantIdents ==
    {Id_MessageA, Id_MessageB, Id_A,
     <<70, 111, 111>>, <<102, 111, 111>>,
     <<70, 111, 111, 66, 97, 114>>, <<70, 111, 111, 95, 66, 97, 114>>,
     <<102, 111, 111, 66, 97, 114>>,
     <<65, 66, 99>>, <<65, 95, 66, 99>>,
     <<72, 84, 84, 80, 83, 101, 114, 118, 101, 114>>,
     <<95, 70, 111, 111>>, <<70, 111, 111, 95>>,
     <<88, 50, 89>>, <<95, 95>>, <<95, 95, 95>>}

\* enum Message { <first>, <second> }: the identifiers of an enum's variants
\* differ
NamedItems ==
    {[kind |-> "enum", ident |-> Id_Message,
      variants |-> <<Variant(pair[1], "Unit", <<>>), Variant(pair[2], "Unit", <<>>)>>] :
        pair \in {p \in VariantIdents \X VariantIdents : p[1] # p[2]}}

InitNames ==
    /\ overflow_checks = TRUE
    /\ NoMailboxes
    /\ NoRelay
    /\ item \in NamedItems
    /\ trait = None
    /\ pc = [a \in Actors |-> "NotStarted"]
    /\ current = [a \in Actors |-> None]
    /\ trace = [a \in Actors |-> <<>>]

NextNames == Expand

SpecNames == InitNames /\ [][NextNames]_vars

\* C21. Handler name derivation: the handler the generator names for a
\* variant V is "handle_" followed by the snake case of V alone, for every
\* variant identifier, and the handlers of distinct variants have distinct
\* names.
C21_HandlerNames ==
    (trait # None /\ trait.kind = "ok") =>
        /\ \A i \in 1..Len(trait.dispatch_arms) :
            /\ trait.dispatch_arms[i].variant_name = item.variants[i].ident
            /\ trait.dispatch_arms[i].method =
                    HandlePrefix \o to_snake_case(item.variants[i].ident)
            /\ trait.handler_prototypes[i].method = trait.dispatch_arms[i].method
        /\ \A i, j \in 1..Len(trait.dispatch_arms) :
            i # j => trait.dispatch_arms[i].method # trait.dispatch_arms[j].method


\* whether an identifier has a letter or a digit
HasAlphanumeric(ident) == \E i \in 1..Len(ident) : IsAlphanumeric(ident[i])

\* "handle"
Id_handle == Take(HandlePrefix, 6)

\* C21, amended. Handler name derivation: the handler the generator names
\* for a variant V is the snake case of "handle_" + V; that is "handle_"
\* followed by the snake case of V alone when V has a letter or a digit
\* (MessageA gives handle_message_a), and "handle" when V is made of
\* underscores only; two variants have the same handler name exactly when
\* their identifiers have the same snake case.
C21_HandlerNamesFolded ==
    (trait # None /\ trait.kind = "ok") =>
        /\ \A i \in 1..Len(trait.dispatch_arms) :
            LET V == item.variants[i].ident
                name == trait.dispatch_arms[i].method
            IN  /\ trait.dispatch_arms[i].variant_name = V
                /\ trait.handler_prototypes[i].method = name
                /\ name = to_snake_case(HandlePrefix \o V)
                /\ HasAlphanumeric(V) => name = HandlePrefix \o to_snake_case(V)
                /\ ~HasAlphanumeric(V) => name = Id_handle
                /\ V = Id_MessageA => name = Id_handle_message_a
        /\ \A i, j \in 1..Len(trait.dispatch_arms) :
            trait.dispatch_arms[i].method = trait.dispatch_arms[j].method
                <=> to_snake_case(item.variants[i].ident) = to_snake_case(item.variants[j].ident)

\* the generator has named the handlers of enum Message { MessageA, Foo_Bar }:
\* handle_message_a and handle_foo_bar
C21_Witness ==
    /\ trait # None /\ trait.kind = "ok"
    /\ item.variants[1].ident = Id_MessageA
    /\ item.variants[2].ident = <<70, 111, 111, 95, 66, 97, 114>>
    /\ trait.dispatch_arms[1].method = Id_handle_message_a
    /\ trait.dispatch_arms[2].method =
            HandlePrefix \o <<102, 111, 111, 95, 98, 97, 114>>


\* whether sequence s is the beginning of sequence t
IsPrefix(s, t) == Len(s) <= Len(t) /\ SubSeq(t, 1, Len(s)) = s

\* C22. Terminated is final: a worker's run loop has ended exactly when its
\* last call is a handler that returned the terminate signal; from then on
\* the worker makes no pre_run, receive, dispatch_message, handler or
\* post_run call and sends nothing, and no message pending for its Inbox,
\* whether it was pending when the loop ended or came later, is taken out of
\* its sender's pipe.
C22_TerminatedFinal ==
    /\ [](\A w \in Workers :
            pc[w] = "Terminated" <=>
                /\ trace[w] # <<>>
                /\ trace[w][Len(trace[w])].ev = "handler"
                /\ trace[w][Len(trace[w])].ret)
    /\ [][\A w \in Workers :
            pc[w] = "Terminated" =>
                /\ pc'[w] = "Terminated"
                /\ trace'[w] = trace[w]
                /\ current'[w] = None /\ current[w] = None
                /\ Len(pipe'[w]) <= Len(pipe[w])
                /\ \A u \in Threads : IsPrefix(PendingFor(w)[u], PendingFor(w)'[u])]_vars

\* the first worker's loop has ended and its thread has finished with a
\* message pending for its Inbox; the message is still pending after the
\* second worker has gone through a cycle of its own
C22_Witness ==
    /\ pc["w1"] = "Terminated"
    /\ thread["w1"] = "Finished"
    /\ PendingFor("w1")["main"] # <<>>
    /\ Len(SelectSeq(trace["w2"], LAMBDA e : e.ev = "post_run")) >= 1


\* the step is a receive by thread t of the oldest message thread u has sent
Receives(t, u) ==
    /\ pipe[u] # <<>>
    /\ pipe'[u] = Tail(pipe[u])
    /\ inbox[t] # None
    /\ Head(pipe[u]).endpoint = inbox[t].endpoint
    /\ IF t \in Workers THEN pc[t] = "Receiving"
       ELSE thread[t] \in {"ReceiveB", "ReceiveA"}

\* C23. Destination stamp matches the receiver: every envelope the Inbox of
\* a thread receives opens to the destination and the source its sender's
\* Outbox was created with, and the destination is the address the Inbox is
\* bound to; in the relay, when the three addresses differ, the sender is
\* the hop before the receiver and the source is that hop's address.
C23_DestinationStamp ==
    [][\A t, u \in Threads :
        Receives(t, u) =>
            LET triple == EnvelopeOpen(Head(pipe[u]).bytes, overflow_checks)
            IN  /\ triple.kind = "ok"
                /\ triple.dest = new_args[u].dest
                /\ triple.source = new_args[u].source
                /\ triple.dest = address[t]
                /\ triple.source = address[u]
                /\ DistinctAddresses => NextStage(u) = t]_vars

\* the spawner has received both messages of the relay, which went through
\* every hop, and the three addresses differ
C23_Witness ==
    /\ DistinctAddresses
    /\ Len(observed) = 2
    /\ \A w \in Workers : pc[w] = "Terminated"
    /\ new_args["w2"].dest = address["main"]
    /\ new_args["w2"].source = address["w2"]


\* the bytes the Outboxes have given to their sockets
SentBytes ==
    UNION {{trace[w][k].bytes : k \in 1..Len(trace[w])} : w \in Workers}

\* C24. Blocking receive never yields no-data: Inbox::receive with
\* ShouldBlock(true) returns Some(bytes), the bytes being one whole message
\* that an Outbox sent, or it panics on an error of the transport and the
\* thread ends; it never returns None, and the socket never gives it EAGAIN.
C24_BlockingNeverNone ==
    \A i \in 1..Len(observed) :
        observed[i].should_block =>
            /\ observed[i].result # None
            /\ observed[i].result.kind \in {"some", "panic"}
            /\ observed[i].result.kind = "some" <=> observed[i].recv.kind = "ok"
            /\ observed[i].result.kind = "some" =>
                /\ observed[i].result.bytes = observed[i].recv.bytes
                /\ observed[i].result.bytes \in SentBytes
                /\ observed[i].arrived >= 1
            /\ observed[i].result.kind = "panic" =>
                /\ observed[i].recv.errno # "EAGAIN"
                /\ i = Len(observed)
                /\ thread["main"] = "Panicked"

\* a blocking receive has returned a message, and a later one, called with
\* nothing in the queue, has ended in the transport's failure
C24_Witness ==
    /\ Len(observed) >= 2
    /\ observed[1].should_block
    /\ observed[1].result.kind = "some"
    /\ observed[Len(observed)].should_block
    /\ observed[Len(observed)].arrived = 0
    /\ observed[Len(observed)].result.kind = "panic"

=============================================================================
